---------------------------- MODULE Spec2Model ----------------------------
(***************************************************************************)
(* A model of plugin-digitaltwin's two text utilities:                     *)
(*                                                                         *)
(*   parseXml   (utils.ts)      XML text -> nested key/value tree, by a    *)
(*                              DOM walk or by a regex scan                *)
(*   unwrap, typeToString, collectFields (utils_zod.ts)                    *)
(*                              introspection of a zod schema graph        *)
(*                                                                         *)
(* JavaScript strings are sequences of one-character strings, so that      *)
(* trim, the regular expressions and the serialisation of a document are   *)
(* computed character by character.                                        *)
(***************************************************************************)
EXTENDS Integers, Sequences, FiniteSets, TLC

VARIABLES
    \* ---- parseXml(xml, options) ----
    xml,        \* the argument: [isString |-> BOOLEAN, chars |-> Seq(Char)]
    options,    \* [arrayize, includeAttributes, coercePrimitives |-> BOOLEAN]
    dom,        \* what globalThis.DOMParser does with this text (environment)
    doc,        \* the document the DOM parser builds from the text, or NoDoc
    pc,         \* position in parseXml
    result,     \* the value parseXml returned
    consulted,  \* the parsing strategies invoked so far, in order
    \* ---- utils_zod.ts ----
    heap,       \* the schema object graph: node id -> node
    root,       \* the schema handed to the introspection function
    zpc,        \* position in the introspection call
    t,          \* unwrap's loop variable (a node id, 0 for undefined)
    zresult,    \* the value returned by the introspection function
    \* ---- coerce(val), called on its own ----
    leafText,   \* the argument val: Seq(Char)
    coerced,    \* [returned |-> BOOLEAN, value |-> what coerce returned]
    \* ---- askLlmObjectXml(runtime, ask, requiredFields, maxRetries) ----
    requiredFields,   \* the argument: a sequence of keys
    maxRetries,       \* the argument
    retries,          \* the local counter
    satisfied,        \* the local flag
    responseContent,  \* the last parse
    apc,              \* position in askLlmObjectXml
    calls,            \* the results of checkRequired, one per useModel call answered
    \* ---- parseFlatByRegex(innerXml, opts), one loop iteration at a time ----
    frames,     \* the call stack: per invocation its text, its tagRE.lastIndex
                \* (1-based), its mapping out and the tag awaiting a nested value
    fopts,      \* the argument opts
    fpc,        \* position in the outermost invocation
    fresult,    \* the value the outermost invocation returned
    \* ---- modelerEvaluator.handler(runtime, message, state), per invocation ----
    store,         \* the runtime's database: the entity and its components
    message,       \* the argument message: its metadata
    reply,         \* what askLlmObjectXml returns to the invocation
    hpc,           \* position in the handler
    modelTarget,   \* the local modelTarget
    characterComp, \* the local characterComp: the component as it was read
    character,     \* the local character
    updates,       \* the updates to apply, as a list
    applied,       \* how many of them applyUpdate has been called on
    updateCalls    \* the arguments of the runtime.updateComponent calls made

xmlVars == <<xml, options, dom, doc, pc, result, consulted>>
zodVars == <<heap, root, zpc, t, zresult>>
coerceVars == <<leafText, coerced>>
askVars == <<requiredFields, maxRetries, retries, satisfied, responseContent, apc, calls>>
flatVars == <<frames, fopts, fpc, fresult>>
handlerVars == <<store, message, reply, hpc, modelTarget, characterComp, character,
                 updates, applied, updateCalls>>
vars == <<xml, options, dom, doc, pc, result, consulted, heap, root, zpc, t, zresult,
          leafText, coerced,
          requiredFields, maxRetries, retries, satisfied, responseContent, apc, calls,
          frames, fopts, fpc, fresult,
          store, message, reply, hpc, modelTarget, characterComp, character,
          updates, applied, updateCalls>>

-----------------------------------------------------------------------------
(* Characters and strings                                                  *)

Digits == {"0", "1", "2", "3", "4", "5", "6", "7", "8", "9"}

Letters ==
    {"a", "b", "c", "d", "e", "f", "g", "h", "i", "j", "k", "l", "m",
     "n", "o", "p", "q", "r", "s", "t", "u", "v", "w", "x", "y", "z",
     "A", "B", "C", "D", "E", "F", "G", "H", "I", "J", "K", "L", "M",
     "N", "O", "P", "Q", "R", "S", "T", "U", "V", "W", "X", "Y", "Z"}

\* the regex class [A-Za-z0-9:_-]
NameChars == Letters \cup Digits \cup {":", "_", "-"}

\* the regex class \s, and the characters String.prototype.trim removes
WhiteSpace == {" ", "\t", "\n", "\r", "\f"}

SubStr(s, from, to) == IF from > to THEN <<>> ELSE SubSeq(s, from, to)

\* String.prototype.trim
TrimStart(s) ==
    LET k == IF \E i \in 1..Len(s) : s[i] \notin WhiteSpace
             THEN CHOOSE i \in 1..Len(s) :
                      /\ s[i] \notin WhiteSpace
                      /\ \A j \in 1..(i - 1) : s[j] \in WhiteSpace
             ELSE Len(s) + 1
    IN SubStr(s, k, Len(s))

TrimEnd(s) ==
    LET k == IF \E i \in 1..Len(s) : s[i] \notin WhiteSpace
             THEN CHOOSE i \in 1..Len(s) :
                      /\ s[i] \notin WhiteSpace
                      /\ \A j \in (i + 1)..Len(s) : s[j] \in WhiteSpace
             ELSE 0
    IN SubStr(s, 1, k)

Trim(s) == TrimEnd(TrimStart(s))

\* whether pattern pat occurs in s at position p
IsAt(s, p, pat) ==
    /\ p >= 1
    /\ p + Len(pat) - 1 <= Len(s)
    /\ \A k \in 1..Len(pat) : s[p + k - 1] = pat[k]

\* the least / greatest element of a non-empty set of integers
Least(S) == CHOOSE m \in S : \A n \in S : m <= n
Greatest(S) == CHOOSE m \in S : \A n \in S : m >= n

-----------------------------------------------------------------------------
(* JavaScript values returned by parseXml                                  *)

JsNull == [ty |-> "null"]
JsBool(b) == [ty |-> "boolean", b |-> b]
JsNum(n) == [ty |-> "number", n |-> n]
JsInfinity(sign) == [ty |-> "infinity", sign |-> sign]
JsStr(s) == [ty |-> "string", s |-> s]
\* an object keeps its own keys in insertion order: a sequence of [key, val]
JsObj(entries) == [ty |-> "object", entries |-> entries]
JsArr(items) == [ty |-> "array", items |-> items]

EmptyObj == JsObj(<<>>)

IsObj(v) == v.ty = "object"
IsArr(v) == v.ty = "array"

Keys(obj) == {obj.entries[i].key : i \in 1..Len(obj.entries)}
HasKey(obj, key) == key \in Keys(obj)
\* obj[key], for a key the object has
Get(obj, key) ==
    LET i == CHOOSE j \in 1..Len(obj.entries) : obj.entries[j].key = key
    IN obj.entries[i].val
\* obj[key] = val: a new key is appended, an old one keeps its place
Put(obj, key, val) ==
    IF HasKey(obj, key)
    THEN JsObj([i \in 1..Len(obj.entries) |->
                   IF obj.entries[i].key = key
                   THEN [key |-> key, val |-> val]
                   ELSE obj.entries[i]])
    ELSE JsObj(Append(obj.entries, [key |-> key, val |-> val]))

-----------------------------------------------------------------------------
(* coerce (utils.ts: the closure inside parseXml)                          *)

DigitValue(c) ==
    CASE c = "0" -> 0 [] c = "1" -> 1 [] c = "2" -> 2 [] c = "3" -> 3
      [] c = "4" -> 4 [] c = "5" -> 5 [] c = "6" -> 6 [] c = "7" -> 7
      [] c = "8" -> 8 [] c = "9" -> 9

RECURSIVE DecimalValue(_)
DecimalValue(s) ==
    IF s = <<>> THEN 0
    ELSE 10 * DecimalValue(SubStr(s, 1, Len(s) - 1)) + DigitValue(s[Len(s)])

IsDecimal(s) == s # <<>> /\ \A i \in 1..Len(s) : s[i] \in Digits

InfinityLiteral == <<"I", "n", "f", "i", "n", "i", "t", "y">>

\* Number(s) for a trimmed, non-empty s: the StringNumericLiteral grammar
\* restricted to signed decimal integers and Infinity (the texts of the model
\* hold no fraction, exponent or radix prefix).  NaN is [ty |-> "NaN"].
JsNaN == [ty |-> "NaN"]
Number(s) ==
    LET signed == s # <<>> /\ s[1] \in {"+", "-"}
        sign == IF signed /\ s[1] = "-" THEN -1 ELSE 1
        body == IF signed THEN SubStr(s, 2, Len(s)) ELSE s
    IN  IF IsDecimal(body) THEN JsNum(sign * DecimalValue(body))
        ELSE IF body = InfinityLiteral THEN JsInfinity(sign)
        ELSE JsNaN

coerce(coercePrimitives, val) ==
    IF ~coercePrimitives THEN JsStr(val)
    ELSE LET s == Trim(val)
         IN  IF s = <<"t", "r", "u", "e">> THEN JsBool(TRUE)
             ELSE IF s = <<"f", "a", "l", "s", "e">> THEN JsBool(FALSE)
             ELSE IF s = <<"n", "u", "l", "l">> THEN JsNull
             ELSE IF s # <<>> /\ Number(s) # JsNaN THEN Number(s)
             ELSE JsStr(s)

-----------------------------------------------------------------------------
(* The DOM the parser hands to walk: element nodes (nodeType 1) and text   *)
(* nodes (nodeType 3)                                                      *)

TextNode(data) == [nodeType |-> 3, data |-> data]
\* selfClose: an element without child nodes written <b/> instead of <b></b>
Element(tagName, attributes, childNodes, selfClose) ==
    [nodeType |-> 1, tagName |-> tagName, attributes |-> attributes,
     childNodes |-> childNodes, selfClose |-> selfClose]

\* element.children: the child nodes that are elements, in document order
Children(element) == SelectSeq(element.childNodes, LAMBDA n : n.nodeType = 1)

RECURSIVE Concat(_)
Concat(seqs) == IF seqs = <<>> THEN <<>> ELSE Head(seqs) \o Concat(Tail(seqs))

\* node.textContent
RECURSIVE TextContent(_)
TextContent(node) ==
    IF node.nodeType = 3 THEN node.data
    ELSE Concat([i \in 1..Len(node.childNodes) |-> TextContent(node.childNodes[i])])

-----------------------------------------------------------------------------
(* walk: the full strategy (utils.ts, inside parseXml's try block)         *)

AttrsKey == <<"@", "a", "t", "t", "r", "s">>

\* lines 88-99: merge one child's value into the mapping under its tag name
WalkMerge(res, tagName, value, arrayize) ==
    IF ~HasKey(res, tagName) THEN Put(res, tagName, value)
    ELSE IF arrayize
         THEN LET existing == Get(res, tagName)
              IN  IF IsArr(existing)
                  THEN Put(res, tagName, JsArr(Append(existing.items, value)))
                  ELSE Put(res, tagName, JsArr(<<existing, value>>))
         ELSE Put(res, tagName, value)

\* lines 71-76: the attribute mapping, attribute by attribute
RECURSIVE WalkAttrs(_, _, _, _)
WalkAttrs(opts, attributes, i, attrs) ==
    IF i > Len(attributes) THEN attrs
    ELSE LET attr == attributes[i]
         IN  IF attr.name = <<>>
             THEN WalkAttrs(opts, attributes, i + 1, attrs)
             ELSE WalkAttrs(opts, attributes, i + 1,
                            Put(attrs, attr.name,
                                coerce(opts.coercePrimitives, attr.value)))

\* lines 77-79: the mapping a branch starts from, given its attribute mapping
WalkAttrsStore(attrs) ==
    IF Len(attrs.entries) > 0 THEN Put(EmptyObj, AttrsKey, attrs) ELSE EmptyObj

\* the attribute mapping stored whether or not includeAttributes is set
WalkAttrsKey_Always(opts, element) ==
    WalkAttrsStore(WalkAttrs(opts, element.attributes, 1, EmptyObj))

\* lines 69-80: result = {} and, with includeAttributes, its '@attrs' key
WalkAttrsKey(opts, element) ==
    IF opts.includeAttributes /\ Len(element.attributes) > 0
    THEN WalkAttrsStore(WalkAttrs(opts, element.attributes, 1, EmptyObj))
    ELSE EmptyObj

RECURSIVE walk(_, _)
RECURSIVE WalkChildren(_, _, _, _)

\* lines 82-100: the loop over element.children
WalkChildren(opts, children, i, res) ==
    IF i > Len(children) THEN res
    ELSE LET child == children[i]
             value == walk(opts, child)
             tagName == child.tagName
         IN  IF tagName = <<>>
             THEN WalkChildren(opts, children, i + 1, res)
             ELSE WalkChildren(opts, children, i + 1,
                               WalkMerge(res, tagName, value, opts.arrayize))

\* lines 56-103
walk(opts, element) ==
    LET childNodes == element.childNodes
        textOnly == /\ Len(childNodes) > 0
                    /\ \A i \in 1..Len(childNodes) : childNodes[i].nodeType \in {3, 4}
    IN  IF textOnly
        THEN coerce(opts.coercePrimitives, TextContent(element))
        ELSE WalkChildren(opts, Children(element), 1, WalkAttrsKey(opts, element))

-----------------------------------------------------------------------------
(* The regular expressions of the degraded strategy                        *)

NoMatch == [found |-> FALSE]

\* the position of the first ">" at or after from, 0 if there is none
FirstGt(s, from) ==
    LET S == {k \in from..Len(s) : s[k] = ">"}
    IN  IF S = {} THEN 0 ELSE Least(S)

\* the end of the longest run of name characters starting at from
\* (from - 1 if s[from] is no name character)
NameRunEnd(s, from) ==
    LET S == {k \in from..Len(s) : \A j \in from..k : s[j] \in NameChars}
    IN  IF S = {} THEN from - 1 ELSE Greatest(S)

CloseTag(name) == <<"<", "/">> \o name \o <<">">>

\* the positions at or after from where </name> occurs
ClosePositions(s, from, name) ==
    {p \in from..Len(s) : IsAt(s, p, CloseTag(name))}

\* /<([A-Za-z0-9:_-]+)[^>]*>([\s\S]*)<\/\1>/ anchored at position i, with the
\* name ending at n: [^>]* runs to the first ">", the greedy body to the last
\* </name>
RootMatchAt(s, i, n) ==
    LET name == SubStr(s, i + 1, n)
        gt == FirstGt(s, n + 1)
        closes == IF gt = 0 THEN {} ELSE ClosePositions(s, gt + 1, name)
    IN  IF closes = {} THEN NoMatch
        ELSE [found |-> TRUE, tag |-> name,
              body |-> SubStr(s, gt + 1, Greatest(closes) - 1)]

\* String.prototype.match with the root expression: the leftmost start, and
\* there the longest name the backtracking accepts
RootMatch(s) ==
    LET Ends(i) == {n \in (i + 1)..NameRunEnd(s, i + 1) : RootMatchAt(s, i, n).found}
        starts == {i \in 1..Len(s) : s[i] = "<" /\ Ends(i) # {}}
    IN  IF starts = {} THEN NoMatch
        ELSE LET i == Least(starts) IN RootMatchAt(s, i, Greatest(Ends(i)))

\* /<([A-Za-z0-9:_-]+)(\s[^>]*)?>([\s\S]*?)<\/\1>/ anchored at position i: the
\* name is the whole run of name characters, followed by ">" or by white space
\* and anything up to the first ">"; the lazy body ends at the first </name>
TagMatchAt(s, i) ==
    LET n == NameRunEnd(s, i + 1)
        name == SubStr(s, i + 1, n)
        gt == IF n + 1 > Len(s) THEN 0
              ELSE IF s[n + 1] = ">" THEN n + 1
              ELSE IF s[n + 1] \in WhiteSpace THEN FirstGt(s, n + 2)
              ELSE 0
        closes == IF gt = 0 THEN {} ELSE ClosePositions(s, gt + 1, name)
    IN  IF i > Len(s) \/ s[i] # "<" \/ n < i + 1 \/ closes = {} THEN NoMatch
        ELSE [found |-> TRUE, tag |-> name,
              body |-> SubStr(s, gt + 1, Least(closes) - 1),
              \* lastIndex after the match
              next |-> Least(closes) + Len(CloseTag(name))]

\* RegExp.prototype.exec from lastIndex = from: the leftmost match
TagExec(s, from) ==
    LET starts == {i \in from..Len(s) : TagMatchAt(s, i).found}
    IN  IF starts = {} THEN NoMatch ELSE TagMatchAt(s, Least(starts))

\* nestedTagRE.test(body)
TagTest(s) == TagExec(s, 1).found

-----------------------------------------------------------------------------
(* parseFlatByRegex and parseWithRegexFallback: the degraded strategy      *)

\* lines 140-151: merge one match's value into the mapping under its tag
FlatMerge(out, tag, value, arrayize) ==
    IF ~HasKey(out, tag) THEN Put(out, tag, value)
    ELSE IF arrayize
         THEN LET existing == Get(out, tag)
              IN  IF IsArr(existing)
                  THEN Put(out, tag, JsArr(Append(existing.items, value)))
                  ELSE Put(out, tag, JsArr(<<existing, value>>))
         ELSE Put(out, tag, value)

\* lines 134-138: the value of a match whose body holds no tag pair
FlatLeaf(opts, body) ==
    IF opts.coercePrimitives
    THEN coerce(opts.coercePrimitives, Trim(body))
    ELSE JsStr(Trim(body))

RECURSIVE parseFlatByRegex(_, _)
RECURSIVE FlatScan(_, _, _, _)
RECURSIVE FlatStep(_, _, _, _)

\* lines 131-151: the body of the exec loop for one match, then the next exec
FlatStep(opts, innerXml, match, out) ==
    IF ~match.found THEN out
    ELSE FlatScan(opts, innerXml, match.next,
                  FlatMerge(out, match.tag,
                            \* hasNested
                            IF TagTest(match.body)
                            THEN parseFlatByRegex(match.body, opts)
                            ELSE FlatLeaf(opts, match.body),
                            opts.arrayize))

\* lines 130-152: the exec loop, from lastIndex = from
FlatScan(opts, innerXml, from, out) ==
    FlatStep(opts, innerXml, TagExec(innerXml, from), out)

\* the scan's mapping returned even when it is empty
FlatReturn_Out(out) == out

\* line 154
FlatReturn(out) == IF Len(out.entries) > 0 THEN out ELSE JsNull

\* lines 121-155
parseFlatByRegex(innerXml, opts) ==
    FlatReturn(FlatScan(opts, innerXml, 1, EmptyObj))

\* lines 115-118
FallbackReturn(rootMatch, opts) ==
    IF ~rootMatch.found THEN JsNull
    ELSE parseFlatByRegex(rootMatch.body, opts)

\* lines 110-119
parseWithRegexFallback(outerXml, opts) ==
    FallbackReturn(RootMatch(outerXml), opts)

-----------------------------------------------------------------------------
(* The inputs of parseXml: well-formed documents, written out character by *)
(* character, and a few texts that are no XML                              *)

MaxElems == 3      \* elements per document

Tags == {<<"a">>, <<"b">>}
RootTags == {<<"a">>}
\* two numerals and a word after white space
LeafTexts == {<<"1">>, <<"2">>, <<" ", "x">>}

\* an element without element children: empty (written <b></b> or <b/>), or
\* holding one text node
Leaves(tags) ==
    {Element(tag, <<>>, <<>>, sc) : tag \in tags, sc \in BOOLEAN}
    \cup {Element(tag, <<>>, <<TextNode(txt)>>, FALSE) : tag \in tags, txt \in LeafTexts}

RECURSIVE Trees(_, _)
RECURSIVE Forests(_)
\* the element trees of exactly n elements whose root tag is in tags
Trees(n, tags) ==
    IF n = 1 THEN Leaves(tags)
    ELSE {Element(tag, <<>>, kids, FALSE) : tag \in tags, kids \in Forests(n - 1)}
\* the non-empty sequences of element trees of n elements in all
Forests(n) ==
    IF n = 0 THEN {}
    ELSE {<<tree>> : tree \in Trees(n, Tags)}
         \cup UNION {{<<first>> \o rest : first \in Trees(k, Tags), rest \in Forests(n - k)}
                     : k \in 1..(n - 1)}

\* the attribute lists a root element carries
RootAttributes == {<<>>, <<[name |-> <<"x">>, value |-> <<"1">>]>>}

Documents ==
    {[d EXCEPT !.attributes = attrs] :
        d \in UNION {Trees(n, RootTags) : n \in 1..MaxElems}, attrs \in RootAttributes}

RECURSIVE Serialize(_)
SerializeAttrs(attributes) ==
    Concat([i \in 1..Len(attributes) |->
               <<" ">> \o attributes[i].name \o <<"=", "\"">>
                       \o attributes[i].value \o <<"\"">>])
\* the text of a node
Serialize(node) ==
    IF node.nodeType = 3 THEN node.data
    ELSE IF node.childNodes = <<>> /\ node.selfClose
         THEN <<"<">> \o node.tagName \o SerializeAttrs(node.attributes) \o <<"/", ">">>
         ELSE <<"<">> \o node.tagName \o SerializeAttrs(node.attributes) \o <<">">>
              \o Concat([i \in 1..Len(node.childNodes) |-> Serialize(node.childNodes[i])])
              \o CloseTag(node.tagName)

-----------------------------------------------------------------------------
(* parseXml(xml, options): the call as a state machine                     *)

NoDoc == [nodeType |-> 0]

StringArg(chars) == [isString |-> TRUE, chars |-> chars]
\* null, undefined, a number: typeof xml !== 'string'
NonStringArg == [isString |-> FALSE, chars |-> <<>>]

\* texts that are no well-formed document: blank, prose, prose around a
\* document, an unclosed element
BlankTexts == {<<>>, <<" ">>, <<"\n", " ">>}
ProseTexts == {<<"n", "o">>, <<"<", "a", ">", "1">>,
               <<"n", "o", " ">> \o Serialize(Element(<<"a">>, <<>>,
                   <<Element(<<"b">>, <<>>, <<TextNode(<<"1">>)>>, FALSE)>>, FALSE))}

OptionSets == [arrayize : BOOLEAN, includeAttributes : BOOLEAN, coercePrimitives : BOOLEAN]
\* lines 28-32
DefaultOptions == [arrayize |-> TRUE, includeAttributes |-> FALSE, coercePrimitives |-> TRUE]

\* what the environment's DOMParser does: there is none ("absent"), it throws
\* ("throwsInParse"), it returns a document holding a parsererror element
\* ("parsererror", on text that is not well formed), it returns the document
\* ("ok"), or it returns a document whose traversal throws ("throwsInWalk")
DomModes(d) ==
    IF d = NoDoc THEN {"absent", "throwsInParse", "parsererror"}
    ELSE {"absent", "throwsInParse", "throwsInWalk", "ok"}

\* the guard without the trim: only the empty string counts as blank
IsBlankInput_NoTrim(x) == ~x.isString \/ x.chars = <<>>

\* line 24
IsBlankInput(x) == ~x.isString \/ Trim(x.chars) = <<>>

\* lines 47-49
OnNoDomParser(x, opts) == parseWithRegexFallback(x.chars, opts)
\* lines 53-55
OnParserError(x, opts) == parseWithRegexFallback(x.chars, opts)
\* the walked root wrapped under the root's tag name
WalkDocument_Wrapped(opts, d) ==
    JsObj(<<[key |-> d.tagName, val |-> walk(opts, d)]>>)

\* line 105
WalkDocument(opts, d) == walk(opts, d)
\* a handler that lets the exception through
OnCatch_Rethrow(x, opts) == [threw |-> TRUE, value |-> JsNull]

\* lines 106-108
OnCatch(x, opts) == [threw |-> FALSE, value |-> parseWithRegexFallback(x.chars, opts)]

\* no call of parseXml is in progress
XmlIdle ==
    /\ xml = NonStringArg /\ options = DefaultOptions /\ dom = "absent" /\ doc = NoDoc
    /\ pc = "idle" /\ result = JsNull /\ consulted = <<>>
\* no call into utils_zod.ts is in progress
ZodIdle ==
    heap = <<>> /\ root = 0 /\ zpc = "idle" /\ t = 0 /\ zresult = [fn |-> "none"]
\* no separate call of coerce is in progress
CoerceIdle == leafText = <<>> /\ coerced = [returned |-> FALSE]
\* no call of askLlmObjectXml is in progress
AskIdle ==
    /\ requiredFields = <<>> /\ maxRetries = 0 /\ retries = 0 /\ satisfied = FALSE
    /\ responseContent = JsNull /\ apc = "idle" /\ calls = <<>>

\* no separate call of parseFlatByRegex is in progress
FlatIdle ==
    frames = <<>> /\ fopts = [arrayize |-> TRUE, coercePrimitives |-> TRUE]
    /\ fpc = "idle" /\ fresult = JsNull

\* the two invocations of the handler the model follows
Procs == {1, 2}
Undefined == [ty |-> "undefined"]
NoComponent == [type |-> "none"]
\* no invocation of the handler is in progress
HandlerIdle ==
    /\ store = [entity |-> FALSE, components |-> <<>>]
    /\ message = [i \in Procs |-> Undefined]
    /\ reply = [i \in Procs |-> JsNull]
    /\ hpc = [i \in Procs |-> "idle"]
    /\ modelTarget = [i \in Procs |-> Undefined]
    /\ characterComp = [i \in Procs |-> NoComponent]
    /\ character = [i \in Procs |-> EmptyObj]
    /\ updates = [i \in Procs |-> <<>>]
    /\ applied = [i \in Procs |-> 0]
    /\ updateCalls = [i \in Procs |-> <<>>]

InitXml ==
    /\ \E d \in Documents \cup {NoDoc} :
          /\ doc = d
          /\ IF d = NoDoc
             THEN xml \in {NonStringArg} \cup {StringArg(c) : c \in BlankTexts \cup ProseTexts}
             ELSE xml = StringArg(Serialize(d))
          /\ dom \in DomModes(d)
    /\ options \in OptionSets
    /\ pc = "call"
    /\ result = JsNull
    /\ consulted = <<>>
    /\ ZodIdle /\ CoerceIdle /\ AskIdle /\ FlatIdle /\ HandlerIdle

\* lines 24-26
XmlGuard ==
    /\ pc = "call"
    /\ IF IsBlankInput(xml)
       THEN pc' = "done" /\ result' = JsNull
       ELSE pc' = "try" /\ UNCHANGED result
    /\ UNCHANGED <<xml, options, dom, doc, consulted>>
    /\ UNCHANGED <<zodVars, coerceVars, askVars, flatVars, handlerVars>>

\* lines 47-49
XmlNoDomParser ==
    /\ pc = "try" /\ dom = "absent"
    /\ result' = OnNoDomParser(xml, options)
    /\ consulted' = Append(consulted, "regex")
    /\ pc' = "done"
    /\ UNCHANGED <<xml, options, dom, doc>>
    /\ UNCHANGED <<zodVars, coerceVars, askVars, flatVars, handlerVars>>

\* lines 51-52
XmlParse ==
    /\ pc = "try" /\ dom # "absent"
    /\ consulted' = Append(consulted, "dom")
    /\ pc' = IF dom = "throwsInParse" THEN "catch" ELSE "parsed"
    /\ UNCHANGED <<xml, options, dom, doc, result>>
    /\ UNCHANGED <<zodVars, coerceVars, askVars, flatVars, handlerVars>>

\* lines 53-55
XmlParserError ==
    /\ pc = "parsed" /\ dom = "parsererror"
    /\ result' = OnParserError(xml, options)
    /\ consulted' = Append(consulted, "regex")
    /\ pc' = "done"
    /\ UNCHANGED <<xml, options, dom, doc>>
    /\ UNCHANGED <<zodVars, coerceVars, askVars, flatVars, handlerVars>>

\* lines 56-105
XmlWalk ==
    /\ pc = "parsed" /\ dom \in {"ok", "throwsInWalk"}
    /\ IF dom = "throwsInWalk"
       THEN pc' = "catch" /\ UNCHANGED result
       ELSE pc' = "done" /\ result' = WalkDocument(options, doc)
    /\ UNCHANGED <<xml, options, dom, doc, consulted>>
    /\ UNCHANGED <<zodVars, coerceVars, askVars, flatVars, handlerVars>>

\* lines 106-108: the handler's outcome r
CatchOutcome(r) ==
    IF r.threw
    THEN pc' = "threw" /\ UNCHANGED <<result, consulted>>
    ELSE /\ pc' = "done"
         /\ result' = r.value
         /\ consulted' = Append(consulted, "regex")

\* lines 106-108
XmlCatch ==
    /\ pc = "catch"
    /\ CatchOutcome(OnCatch(xml, options))
    /\ UNCHANGED <<xml, options, dom, doc>>
    /\ UNCHANGED <<zodVars, coerceVars, askVars, flatVars, handlerVars>>

NextXml ==
    XmlGuard \/ XmlNoDomParser \/ XmlParse \/ XmlParserError \/ XmlWalk \/ XmlCatch

SpecXml == InitXml /\ [][NextXml]_vars

-----------------------------------------------------------------------------
(* coerce(val) on its own: the leaf texts it can be handed                 *)

\* what a leaf text holds between its leading and trailing white space
CoreTexts ==
    {<<>>, <<"t", "r", "u", "e">>, <<"f", "a", "l", "s", "e">>, <<"n", "u", "l", "l">>,
     <<"T", "r", "u", "e">>, <<"t", "r", "u">>, <<"x">>,
     <<"0">>, <<"1">>, <<"1", "2">>, <<"-", "1">>, <<"+", "2">>, <<"1", " ", "2">>,
     <<"1", "x">>, <<"-">>,
     InfinityLiteral, <<"-">> \o InfinityLiteral, <<"+">> \o InfinityLiteral}
LeadingSpace == {<<>>, <<" ">>, <<"\n", "\t">>}
TrailingSpace == {<<>>, <<" ">>}
CoerceTexts ==
    {lead \o core \o trail : lead \in LeadingSpace, core \in CoreTexts, trail \in TrailingSpace}

InitCoerce ==
    /\ leafText \in CoerceTexts
    /\ coerced = [returned |-> FALSE]
    /\ options \in {[DefaultOptions EXCEPT !.coercePrimitives = b] : b \in BOOLEAN}
    /\ xml = NonStringArg /\ dom = "absent" /\ doc = NoDoc
    /\ pc = "idle" /\ result = JsNull /\ consulted = <<>>
    /\ ZodIdle /\ AskIdle /\ FlatIdle /\ HandlerIdle

\* lines 34-42
CallCoerce ==
    /\ ~coerced.returned
    /\ coerced' = [returned |-> TRUE, value |-> coerce(options.coercePrimitives, leafText)]
    /\ UNCHANGED leafText
    /\ UNCHANGED <<xmlVars, zodVars, askVars, flatVars, handlerVars>>

NextCoerce == CallCoerce

SpecCoerce == InitCoerce /\ [][NextCoerce]_vars

-----------------------------------------------------------------------------
(* utils_zod.ts: the schema object graph                                   *)
(*                                                                         *)
(* A schema object and its _def are one node of the heap; a reference to   *)
(* a schema is the node's id, and 0 is undefined.  A node whose typeName   *)
(* is NoTypeName is an object that is no zod schema.                       *)

NoTypeName == "<none>"

ZNode(typeName, isOptional) ==
    [typeName |-> typeName,
     isOptional |-> isOptional,   \* what the node's isOptional() answers
     innerType |-> 0, schema |-> 0, type |-> 0, valueType |-> 0,
     options |-> <<>>,            \* ZodUnion: the option schemas
     items |-> <<>>,              \* ZodTuple: the item schemas
     shape |-> <<>>,              \* ZodObject: [key, schema] in declaration order
     description |-> ""]          \* _def.description, "" when there is none

\* isZodSchema(x)
isZodSchema(h, x) == x # 0 /\ x \in DOMAIN h /\ h[x].typeName # NoTypeName

\* one pass through the body of unwrap's while loop (lines 15-27): either a
\* return or the next value of t
UnwrapIteration(h, x) ==
    IF ~isZodSchema(h, x) THEN [return |-> TRUE, value |-> 0]
    ELSE LET d == h[x]
         IN  IF d.isOptional THEN [return |-> FALSE, value |-> d.innerType]
             ELSE IF isZodSchema(h, d.innerType) THEN [return |-> FALSE, value |-> d.innerType]
             ELSE IF isZodSchema(h, d.schema) THEN [return |-> FALSE, value |-> d.schema]
             ELSE IF isZodSchema(h, d.type) THEN [return |-> FALSE, value |-> d.type]
             ELSE [return |-> TRUE, value |-> x]

RECURSIVE UnwrapLoop(_, _)
UnwrapLoop(h, x) ==
    LET step == UnwrapIteration(h, x)
    IN  IF step.return THEN step.value ELSE UnwrapLoop(h, step.value)

\* unwrap(t): a node id, 0 for undefined
unwrap(h, x) == IF ~isZodSchema(h, x) THEN 0 ELSE UnwrapLoop(h, x)

\* String.prototype.join over rendered parts
RECURSIVE Join(_, _)
Join(parts, sep) ==
    IF parts = <<>> THEN ""
    ELSE IF Len(parts) = 1 THEN parts[1]
    ELSE parts[1] \o sep \o Join(Tail(parts), sep)

RECURSIVE typeToString(_, _)
\* lines 35-86 (ZodLiteral and ZodEnum, which render their values, are not
\* among the kinds of the model)
typeToString(h, t0) ==
    LET u == unwrap(h, t0)
        Render(x) == IF isZodSchema(h, x) THEN typeToString(h, x) ELSE "unknown"
    IN  IF ~isZodSchema(h, u) THEN "unknown"
        ELSE LET def == h[u]
                 kind == def.typeName
             IN  CASE kind = "ZodString" -> "string"
                   [] kind = "ZodNumber" -> "number"
                   [] kind = "ZodBoolean" -> "boolean"
                   [] kind = "ZodDate" -> "date"
                   [] kind = "ZodBigInt" -> "bigint"
                   [] kind = "ZodNativeEnum" -> "enum"
                   [] kind = "ZodNull" -> "null"
                   [] kind = "ZodUndefined" -> "undefined"
                   [] kind = "ZodUnknown" -> "unknown"
                   [] kind = "ZodAny" -> "any"
                   [] kind = "ZodArray" -> "array<" \o Render(def.type) \o ">"
                   [] kind = "ZodRecord" -> "record<string, " \o Render(def.valueType) \o ">"
                   [] kind = "ZodUnion" ->
                        Join([i \in 1..Len(def.options) |-> Render(def.options[i])], " | ")
                   [] kind = "ZodObject" -> "object"
                   [] kind = "ZodTuple" ->
                        "tuple<" \o Join([i \in 1..Len(def.items) |-> Render(def.items[i])], ", ") \o ">"
                   [] OTHER -> "unknown"

\* lines 31-33: the _def of a schema, {} (no description) for undefined
getDef(h, x) == IF x # 0 /\ x \in DOMAIN h THEN h[x] ELSE [description |-> ""]

\* lines 103-104: the description of the unwrapped node, "" for undefined
UnwrappedDescription(h, u) == getDef(h, u).description

\* lines 89-106, for schemas without a meta() method (zod 3): "" is undefined
getDescription(h, x) ==
    IF getDef(h, x).description # "" THEN getDef(h, x).description
    ELSE UnwrappedDescription(h, unwrap(h, x))

RECURSIVE collectFields(_, _, _)
RECURSIVE CollectShape(_, _, _, _)

\* lines 141-169: the loop over Object.keys(shape), from the i-th key
CollectShape(h, shape, prefix, i) ==
    IF i > Len(shape) THEN <<>>
    ELSE LET key == shape[i].key
             original == shape[i].schema
             path == IF prefix # "" THEN prefix \o "." \o key ELSE key
             unwrapped == unwrap(h, original)
             optional == isZodSchema(h, original) /\ h[original].isOptional
             row == [path |-> path, type |-> typeToString(h, original), optional |-> optional,
                     description |-> getDescription(h, original)]
             kind == IF isZodSchema(h, unwrapped) THEN h[unwrapped].typeName ELSE NoTypeName
             nested ==
                 IF kind = "ZodObject" THEN collectFields(h, unwrapped, path)
                 ELSE IF kind = "ZodArray"
                 THEN LET elem == unwrap(h, h[unwrapped].type)
                      IN  IF isZodSchema(h, elem) /\ h[elem].typeName = "ZodObject"
                          THEN collectFields(h, elem, path \o "[]")
                          ELSE <<>>
                 ELSE IF kind = "ZodRecord"
                 THEN LET val == unwrap(h, h[unwrapped].valueType)
                      IN  IF isZodSchema(h, val) /\ h[val].typeName = "ZodObject"
                          THEN collectFields(h, val, path \o "{value}")
                          ELSE <<>>
                 ELSE <<>>
         IN  <<row>> \o nested \o CollectShape(h, shape, prefix, i + 1)

\* lines 129-171
collectFields(h, schema, prefix) ==
    LET obj == unwrap(h, schema)
    IN  IF ~isZodSchema(h, obj) \/ h[obj].typeName # "ZodObject" THEN <<>>
        ELSE CollectShape(h, h[obj].shape, prefix, 1)

\* lines 179-181: the line of one field descriptor (" -- " stands for the
\* em dash between spaces, a character outside the module's character set)
FieldLine(f) ==
    "- " \o f.path \o " (" \o f.type \o ", "
         \o (IF f.optional THEN "optional" ELSE "required") \o ")"
         \o (IF f.description # "" THEN " -- " \o f.description ELSE "")

\* line 176: the header line
HeaderLine(desc) == IF desc # "" THEN "Schema: " \o desc ELSE "Schema:"

\* lines 176-182: the array lines before it is joined
PromptLines(desc, fields) ==
    <<HeaderLine(desc)>> \o [i \in 1..Len(fields) |-> FieldLine(fields[i])]

\* lines 174-184: lines is the local array, text the string returned
schemaToPrompt(h, schema) ==
    [lines |-> PromptLines(getDescription(h, schema), collectFields(h, schema, "")),
     text |-> Join(PromptLines(getDescription(h, schema), collectFields(h, schema, "")), "\n")]

-----------------------------------------------------------------------------
(* The schema graphs handed to the introspection functions                 *)
(*                                                                         *)
(* Node i refers to nodes 2i and 2i+1.  isOptional() answers as zod's does *)
(* (the schema accepts undefined): true for ZodOptional, ZodUndefined,     *)
(* ZodUnknown and ZodAny, the wrapped schema's answer for ZodNullable,     *)
(* ZodEffects, ZodBranded and ZodUnion, false otherwise.                   *)

MaxDepth == 3      \* levels of nodes below the root of a schema

\* schemas without a link to another schema; the last three are malformed:
\* an object that is no schema, an optional without innerType, an array
\* whose element is no schema
TerminalNodes ==
    {ZNode("ZodString", FALSE), ZNode("ZodNull", FALSE), ZNode("ZodUndefined", TRUE),
     ZNode("ZodUnknown", TRUE), ZNode("ZodAny", TRUE), ZNode("ZodFunction", FALSE),
     ZNode(NoTypeName, FALSE), ZNode("ZodOptional", TRUE), ZNode("ZodArray", FALSE)}

\* the nodes of one link, to node c whose isOptional() answers copt
LinkNodes(c, copt) ==
    {[ZNode("ZodOptional", TRUE) EXCEPT !.innerType = c],
     [ZNode("ZodNullable", copt) EXCEPT !.innerType = c],
     [ZNode("ZodEffects", copt) EXCEPT !.schema = c],
     [ZNode("ZodBranded", copt) EXCEPT !.type = c],
     [ZNode("ZodArray", FALSE) EXCEPT !.type = c],
     [ZNode("ZodRecord", FALSE) EXCEPT !.valueType = c],
     [ZNode("ZodObject", FALSE) EXCEPT !.shape = <<[key |-> "a", schema |-> c]>>]}

\* the nodes of two links: an object of two fields, a union of two options
PairNodes(c, copt, e) ==
    {[ZNode("ZodObject", FALSE) EXCEPT
         !.shape = <<[key |-> "a", schema |-> c], [key |-> "b", schema |-> e]>>],
     [ZNode("ZodUnion", copt) EXCEPT !.options = <<c, e>>],
     [ZNode("ZodTuple", FALSE) EXCEPT !.items = <<c, e>>]}

\* the kind of the second node of a pair
SiblingKinds == {"ZodNumber"}

RECURSIVE Schemas(_, _)
\* the graphs rooted at node i, at most d levels deep
Schemas(i, d) ==
    {(i :> n) : n \in TerminalNodes}
    \cup (IF d = 0 THEN {}
          ELSE LET c == 2 * i
                   e == 2 * i + 1
                   subs == Schemas(c, d - 1)
               IN  UNION {{(i :> n) @@ sub : n \in LinkNodes(c, sub[c].isOptional)}
                          : sub \in subs}
                   \cup UNION {{(i :> n) @@ sub @@ (e :> ZNode(k, FALSE))
                                   : n \in PairNodes(c, sub[c].isOptional, e)}
                               : sub \in subs, k \in SiblingKinds}
                   \* a refined optional: z.optional() under an effect
                   \cup {(i :> [ZNode("ZodEffects", TRUE) EXCEPT !.schema = e]) @@ sub
                            @@ (e :> [ZNode("ZodOptional", TRUE) EXCEPT !.innerType = c])
                         : sub \in subs})

-----------------------------------------------------------------------------
(* The introspection functions applied to a schema: typeToString,          *)
(* collectFields and unwrap are synchronous and run to their return        *)

\* the descriptions attached with describe(): none, one on the schema passed
\* in, one on node 2 (the wrapped schema, the element, or the first field)
Described(h) ==
    {h, [h EXCEPT ![1].description = "about"]}
    \cup (IF 2 \in DOMAIN h THEN {[h EXCEPT ![2].description = "note"]} ELSE {})

InitZod ==
    /\ heap \in UNION {Described(h) : h \in Schemas(1, MaxDepth)}
    /\ root = 1
    /\ zpc = "idle"
    /\ t = 0
    /\ zresult = [fn |-> "none"]
    /\ XmlIdle /\ CoerceIdle /\ AskIdle /\ FlatIdle /\ HandlerIdle

CallTypeToString ==
    /\ zpc = "idle"
    /\ zresult' = [fn |-> "typeToString", value |-> typeToString(heap, root)]
    /\ zpc' = "done"
    /\ UNCHANGED <<heap, root, t>>
    /\ UNCHANGED <<xmlVars, coerceVars, askVars, flatVars, handlerVars>>

CallCollectFields ==
    /\ zpc = "idle"
    /\ zresult' = [fn |-> "collectFields", value |-> collectFields(heap, root, "")]
    /\ zpc' = "done"
    /\ UNCHANGED <<heap, root, t>>
    /\ UNCHANGED <<xmlVars, coerceVars, askVars, flatVars, handlerVars>>

CallUnwrap ==
    /\ zpc = "idle"
    /\ zresult' = [fn |-> "unwrap", value |-> unwrap(heap, root)]
    /\ zpc' = "done"
    /\ UNCHANGED <<heap, root, t>>
    /\ UNCHANGED <<xmlVars, coerceVars, askVars, flatVars, handlerVars>>

CallSchemaToPrompt ==
    /\ zpc = "idle"
    /\ zresult' = [fn |-> "schemaToPrompt", value |-> schemaToPrompt(heap, root)]
    /\ zpc' = "done"
    /\ UNCHANGED <<heap, root, t>>
    /\ UNCHANGED <<xmlVars, coerceVars, askVars, flatVars, handlerVars>>

NextZod == CallTypeToString \/ CallCollectFields \/ CallUnwrap \/ CallSchemaToPrompt

SpecZod == InitZod /\ [][NextZod]_vars

-----------------------------------------------------------------------------
(* unwrap(t) step by step: the while loop on any object graph, graphs      *)
(* whose links lead back to an earlier node included                       *)

MaxChain == 2      \* links from the root to the deepest node, before redirection

\* h with one of node i's links innerType, schema, type redirected to node j
Redirections(h) ==
    {[h EXCEPT ![i].innerType = j] : i \in {k \in DOMAIN h : h[k].innerType # 0}, j \in DOMAIN h}
    \cup {[h EXCEPT ![i].schema = j] : i \in {k \in DOMAIN h : h[k].schema # 0}, j \in DOMAIN h}
    \cup {[h EXCEPT ![i].type = j] : i \in {k \in DOMAIN h : h[k].type # 0}, j \in DOMAIN h}

ObjectGraphs(depth) ==
    Schemas(1, depth) \cup UNION {Redirections(h) : h \in Schemas(1, depth)}

InitUnwrap ==
    /\ heap \in ObjectGraphs(MaxChain)
    /\ root = 1
    /\ zpc = "enter"
    /\ t = 1
    /\ zresult = [fn |-> "none"]
    /\ XmlIdle /\ CoerceIdle /\ AskIdle /\ FlatIdle /\ HandlerIdle

\* line 10
UnwrapEnter ==
    /\ zpc = "enter"
    /\ IF ~isZodSchema(heap, t)
       THEN zpc' = "returned" /\ zresult' = [fn |-> "unwrap", value |-> 0]
       ELSE zpc' = "loop" /\ UNCHANGED zresult
    /\ UNCHANGED <<heap, root, t>>
    /\ UNCHANGED <<xmlVars, coerceVars, askVars, flatVars, handlerVars>>

\* line 15: the loop's test of t
UnwrapTest ==
    /\ zpc = "loop"
    /\ IF ~isZodSchema(heap, t)
       THEN zpc' = "returned" /\ zresult' = [fn |-> "unwrap", value |-> 0]
       ELSE zpc' = "body" /\ UNCHANGED zresult
    /\ UNCHANGED <<heap, root, t>>
    /\ UNCHANGED <<xmlVars, coerceVars, askVars, flatVars, handlerVars>>

\* lines 16-27: follow one link and continue, or return t
UnwrapFollow ==
    /\ zpc = "body"
    /\ LET step == UnwrapIteration(heap, t)
       IN  IF step.return
           THEN /\ zpc' = "returned"
                /\ zresult' = [fn |-> "unwrap", value |-> step.value]
                /\ UNCHANGED t
           ELSE /\ zpc' = "loop"
                /\ t' = step.value
                /\ UNCHANGED zresult
    /\ UNCHANGED <<heap, root>>
    /\ UNCHANGED <<xmlVars, coerceVars, askVars, flatVars, handlerVars>>

NextUnwrap == UnwrapEnter \/ UnwrapTest \/ UnwrapFollow

\* a running call keeps executing: the loop is synchronous code
SpecUnwrap == InitUnwrap /\ [][NextUnwrap]_vars /\ WF_vars(NextUnwrap)

-----------------------------------------------------------------------------
(* parseFlatByRegex one loop iteration at a time: every invocation owns    *)
(* its tagRE, whose lastIndex is the invocation's scan position            *)

\* the opts parseFlatByRegex destructures (line 125)
FlatOptionSets == [arrayize : BOOLEAN, coercePrimitives : BOOLEAN]

\* texts with an unclosed, a mismatched and a broken tag, and with a pair
\* inside an element of the same name
BrokenTexts ==
    {<<"<", "a", ">", "<", "b", ">", "1", "<", "/", "b", ">">>,
     <<"<", "a", ">", "1", "<", "/", "b", ">", "<", "b", ">", "2", "<", "/", "b", ">">>,
     <<"<", ">", "<", "/", ">", "<", "a", " ", ">", "<", "/", "a", ">">>,
     <<"<", "a", ">", "<", "a", ">", "1", "<", "/", "a", ">", "<", "b", ">", "2",
       "<", "/", "b", ">", "<", "/", "a", ">">>}

\* the texts scanned: the documents, and the texts above
ScanTexts == {Serialize(d) : d \in Documents} \cup BlankTexts \cup ProseTexts \cup BrokenTexts

RECURSIVE MatchesFrom(_, _)
\* the matches of the exec loop over x, from lastIndex = from
MatchesFrom(x, from) ==
    IF ~TagExec(x, from).found THEN {}
    ELSE {TagExec(x, from)} \cup MatchesFrom(x, TagExec(x, from).next)

RECURSIVE Invocations(_)
\* the texts parseFlatByRegex is invoked on when it is called on x
Invocations(x) ==
    {x} \cup UNION {Invocations(m.body) : m \in {n \in MatchesFrom(x, 1) : TagTest(n.body)}}

ScannedTexts == UNION {Invocations(x) : x \in ScanTexts}

\* what tagRE.exec and nestedTagRE.test answer on the scanned texts, computed
\* once per text and scan position
ExecTable ==
    [x \in ScannedTexts |->
        [from \in 1..(Len(x) + 1) |->
            IF TagExec(x, from).found
            THEN [match |-> TagExec(x, from), hasNested |-> TagTest(TagExec(x, from).body)]
            ELSE [match |-> NoMatch, hasNested |-> FALSE]]]

\* the bodies that hold no tag pair, and their values (lines 136-138)
LeafBodies ==
    UNION {{ExecTable[x][from].match.body :
               from \in {k \in 1..(Len(x) + 1) : /\ ExecTable[x][k].match.found
                                                 /\ ~ExecTable[x][k].hasNested}}
           : x \in ScannedTexts}

LeafTable ==
    [coercePrimitives \in BOOLEAN |->
        [body \in LeafBodies |->
            FlatLeaf([arrayize |-> TRUE, coercePrimitives |-> coercePrimitives], body)]]

\* lines 126-128: a new invocation, with its own out, tagRE (lastIndex 0),
\* match and hasNested; at is the invocation's position: before exec, in the
\* loop body, awaiting the recursive call, or past the loop
Frame(innerXml) ==
    [innerXml |-> innerXml, lastIndex |-> 1, out |-> EmptyObj,
     match |-> NoMatch, hasNested |-> FALSE, at |-> "exec"]

\* the scan position of all invocations were one regex object shared by them:
\* the callee's failed exec has reset lastIndex
ResumeIndex_SharedRegex(callerIndex, calleeIndex) == calleeIndex

\* the caller's scan position once a nested invocation has returned: its own
\* tagRE, which the callee never touched (line 127)
ResumeIndex(callerIndex, calleeIndex) == callerIndex

InitFlat ==
    /\ frames = <<>>
    /\ fopts = [arrayize |-> TRUE, coercePrimitives |-> TRUE]
    /\ fpc = "call"
    /\ fresult = JsNull
    /\ XmlIdle /\ ZodIdle /\ CoerceIdle /\ AskIdle /\ HandlerIdle

\* lines 121-128: the outermost invocation, on some text with some options
FlatCall ==
    /\ fpc = "call"
    /\ frames' \in {<<Frame(x)>> : x \in ScanTexts}
    /\ fopts' \in FlatOptionSets
    /\ fpc' = "scan"
    /\ UNCHANGED fresult
    /\ UNCHANGED <<xmlVars, zodVars, coerceVars, askVars, handlerVars>>

\* lines 130-133, match = tagRE.exec(innerXml): a match moves lastIndex
\* behind it and its body is tested for a tag pair; a failure resets lastIndex
\* and ends the loop
AfterExec(top, exec) ==
    IF exec.match.found
    THEN [top EXCEPT !.match = exec.match, !.lastIndex = exec.match.next,
                     !.hasNested = exec.hasNested, !.at = "body"]
    ELSE [top EXCEPT !.match = NoMatch, !.lastIndex = 1, !.at = "done"]

FlatExec ==
    /\ fpc = "scan"
    /\ frames[Len(frames)].at = "exec"
    /\ frames' = [frames EXCEPT ![Len(frames)] =
                     AfterExec(frames[Len(frames)],
                               ExecTable[frames[Len(frames)].innerXml]
                                        [frames[Len(frames)].lastIndex])]
    /\ UNCHANGED <<fopts, fpc, fresult>>
    /\ UNCHANGED <<xmlVars, zodVars, coerceVars, askVars, handlerVars>>

\* lines 134-151 for a match whose body holds no tag pair
FlatLeafValue ==
    /\ fpc = "scan"
    /\ frames[Len(frames)].at = "body"
    /\ ~frames[Len(frames)].hasNested
    /\ frames' = [frames EXCEPT ![Len(frames)].at = "exec",
                                ![Len(frames)].out =
                                     FlatMerge(@, frames[Len(frames)].match.tag,
                                               LeafTable[fopts.coercePrimitives]
                                                        [frames[Len(frames)].match.body],
                                               fopts.arrayize)]
    /\ UNCHANGED <<fopts, fpc, fresult>>
    /\ UNCHANGED <<xmlVars, zodVars, coerceVars, askVars, handlerVars>>

\* lines 134-135 for a match whose body holds a tag pair: the recursive call
FlatNestedCall ==
    /\ fpc = "scan"
    /\ frames[Len(frames)].at = "body"
    /\ frames[Len(frames)].hasNested
    /\ frames' = Append([frames EXCEPT ![Len(frames)].at = "await"],
                        Frame(frames[Len(frames)].match.body))
    /\ UNCHANGED <<fopts, fpc, fresult>>
    /\ UNCHANGED <<xmlVars, zodVars, coerceVars, askVars, handlerVars>>

\* line 154 in a nested invocation, then lines 135-151 in its caller
AfterNested(caller, callee) ==
    [caller EXCEPT !.at = "exec",
                   !.lastIndex = ResumeIndex(caller.lastIndex, callee.lastIndex),
                   !.out = FlatMerge(caller.out, caller.match.tag,
                                     FlatReturn(callee.out), fopts.arrayize)]

FlatNestedReturn ==
    /\ fpc = "scan"
    /\ Len(frames) > 1
    /\ frames[Len(frames)].at = "done"
    /\ frames' = [SubSeq(frames, 1, Len(frames) - 1) EXCEPT ![Len(frames) - 1] =
                     AfterNested(frames[Len(frames) - 1], frames[Len(frames)])]
    /\ UNCHANGED <<fopts, fpc, fresult>>
    /\ UNCHANGED <<xmlVars, zodVars, coerceVars, askVars, handlerVars>>

\* line 154 in the outermost invocation
FlatOuterReturn ==
    /\ fpc = "scan"
    /\ Len(frames) = 1
    /\ frames[1].at = "done"
    /\ fpc' = "returned"
    /\ fresult' = FlatReturn(frames[1].out)
    /\ UNCHANGED <<frames, fopts>>
    /\ UNCHANGED <<xmlVars, zodVars, coerceVars, askVars, handlerVars>>

NextFlat ==
    FlatCall \/ FlatExec \/ FlatLeafValue \/ FlatNestedCall \/ FlatNestedReturn
    \/ FlatOuterReturn

\* the loop is synchronous code: a running scan keeps executing
SpecFlat == InitFlat /\ [][NextFlat]_vars /\ WF_vars(NextFlat)

-----------------------------------------------------------------------------
(* askLlmObjectXml (evaluators/modeler.ts): the retry loop around the      *)
(* model call and parseXml                                                 *)

MaxRetries == 3    \* the largest maxRetries argument (3 is the default)

\* parseXml as a function of its arguments and of what the environment's
\* DOMParser does with the text (utils.ts lines 23-108)
parseXml(x, opts, mode, d) ==
    IF IsBlankInput(x) THEN JsNull
    ELSE IF mode = "absent" THEN OnNoDomParser(x, opts)
    ELSE IF mode = "parsererror" THEN OnParserError(x, opts)
    ELSE IF mode = "ok" THEN WalkDocument(opts, d)
    ELSE OnCatch(x, opts).value

ThinkOpen == <<"<", "t", "h", "i", "n", "k", ">">>
ThinkClose == <<"<", "/", "t", "h", "i", "n", "k", ">">>

RECURSIVE StripThink(_)
\* lines 107-110: response.replace(/<think>[\s\S]*?<\/think>/g, '')
StripThink(s) ==
    LET opens == {i \in 1..Len(s) :
                     /\ IsAt(s, i, ThinkOpen)
                     /\ \E j \in (i + Len(ThinkOpen))..Len(s) : IsAt(s, j, ThinkClose)}
    IN  IF opens = {} THEN s
        ELSE LET i == Least(opens)
                 j == Least({k \in (i + Len(ThinkOpen))..Len(s) : IsAt(s, k, ThinkClose)})
             IN  SubStr(s, 1, i - 1) \o StripThink(SubStr(s, j + Len(ThinkClose), Len(s)))

\* lines 107-110: cleanResponse, '' for a response that is no string
CleanResponse(response) ==
    IF response.isString THEN StringArg(StripThink(response.chars)) ELSE StringArg(<<>>)

\* JavaScript's !resp for a value parseXml returns
IsFalsy(v) ==
    \/ v = JsNull
    \/ v = JsBool(FALSE)
    \/ v = JsNum(0)
    \/ v = JsStr(<<>>)

\* lines 85-91
checkRequired(fields, resp) ==
    IF IsFalsy(resp) THEN FALSE
    ELSE \A i \in 1..Len(fields) : IsObj(resp) /\ HasKey(resp, fields[i])

\* the loop runs whatever satisfied is
LoopCondition_IgnoreSatisfied(n, budget, sat) == n < budget

\* line 98
LoopCondition(n, budget, sat) == n < budget /\ ~sat

\* the documents the model answers with
ResponseDocuments ==
    {Element(<<"a">>, <<>>, <<Element(<<"b">>, <<>>, <<TextNode(<<"1">>)>>, FALSE)>>, FALSE),
     Element(<<"a">>, <<>>, <<Element(<<"a">>, <<>>, <<TextNode(<<"1">>)>>, FALSE),
                              Element(<<"b">>, <<>>, <<TextNode(<<"2">>)>>, FALSE)>>, FALSE),
     Element(<<"a">>, <<>>, <<TextNode(<<"0">>)>>, FALSE),
     Element(<<"a">>, <<>>, <<TextNode(<<"1">>)>>, FALSE)}

\* what useModel resolves to: no string, an empty text, prose, a document, a
\* document after a <think> block; doc is the document of the cleaned text
Responses ==
    {[raw |-> NonStringArg, doc |-> NoDoc],
     [raw |-> StringArg(<<>>), doc |-> NoDoc],
     [raw |-> StringArg(<<"n", "o">>), doc |-> NoDoc]}
    \cup {[raw |-> StringArg(Serialize(d)), doc |-> d] : d \in ResponseDocuments}
    \cup {[raw |-> StringArg(ThinkOpen \o <<"x">> \o ThinkClose \o Serialize(d)), doc |-> d]
             : d \in ResponseDocuments}

\* the requiredFields arguments
RequiredFieldLists == {<<>>, <<<<"b">>>>, <<<<"a">>, <<"b">>>>}

InitAsk ==
    /\ requiredFields \in RequiredFieldLists
    /\ maxRetries \in 0..MaxRetries
    /\ retries = 0
    /\ satisfied = FALSE
    /\ responseContent = JsNull
    /\ apc = "loop"
    /\ calls = <<>>
    \* whether the environment has a DOMParser
    /\ dom \in {"absent", "ok"}
    /\ xml = NonStringArg /\ options = DefaultOptions /\ doc = NoDoc
    /\ pc = "idle" /\ result = JsNull /\ consulted = <<>>
    /\ ZodIdle /\ CoerceIdle /\ FlatIdle /\ HandlerIdle

\* lines 98-99: the loop test passes and useModel is called
AskCall ==
    /\ apc = "loop"
    /\ LoopCondition(retries, maxRetries, satisfied)
    /\ apc' = "awaiting"
    /\ calls' = Append(calls, "pending")
    /\ UNCHANGED <<requiredFields, maxRetries, retries, satisfied, responseContent>>
    /\ UNCHANGED <<xmlVars, zodVars, coerceVars, flatVars, handlerVars>>

\* lines 105-125, for the parse of one response
AskParsed(parsed) ==
    /\ retries' = retries + 1
    /\ responseContent' = parsed
    /\ satisfied' = checkRequired(requiredFields, parsed)
    /\ calls' = [calls EXCEPT ![Len(calls)] =
                    IF checkRequired(requiredFields, parsed) THEN "satisfied" ELSE "unsatisfied"]

\* lines 99-126: useModel resolves and the rest of the loop body runs
AskResponse ==
    /\ apc = "awaiting"
    /\ \E response \in Responses :
          AskParsed(parseXml(CleanResponse(response.raw), DefaultOptions,
                             IF dom = "ok" /\ response.doc = NoDoc THEN "parsererror" ELSE dom,
                             response.doc))
    /\ apc' = "loop"
    /\ UNCHANGED <<requiredFields, maxRetries>>
    /\ UNCHANGED <<xmlVars, zodVars, coerceVars, flatVars, handlerVars>>

\* line 99: useModel rejects; nothing catches it, the call rejects
AskModelThrows ==
    /\ apc = "awaiting"
    /\ apc' = "rejected"
    /\ calls' = [calls EXCEPT ![Len(calls)] = "threw"]
    /\ UNCHANGED <<requiredFields, maxRetries, retries, satisfied, responseContent>>
    /\ UNCHANGED <<xmlVars, zodVars, coerceVars, flatVars, handlerVars>>

\* lines 98, 128: the loop test fails and responseContent is returned
AskReturn ==
    /\ apc = "loop"
    /\ ~LoopCondition(retries, maxRetries, satisfied)
    /\ apc' = "returned"
    /\ UNCHANGED <<requiredFields, maxRetries, retries, satisfied, responseContent, calls>>
    /\ UNCHANGED <<xmlVars, zodVars, coerceVars, flatVars, handlerVars>>

NextAsk == AskCall \/ AskResponse \/ AskModelThrows \/ AskReturn

\* the loop is sequential code and the awaited model call settles
SpecAsk == InitAsk /\ [][NextAsk]_vars /\ WF_vars(NextAsk)

-----------------------------------------------------------------------------
(* modelerEvaluator.handler (evaluators/modeler.ts): the values it handles *)

UpdatesKey == <<"u", "p", "d", "a", "t", "e", "s">>
UpdateKey == <<"u", "p", "d", "a", "t", "e">>
FieldKey == <<"f", "i", "e", "l", "d">>
NewKey == <<"n", "e", "w">>
NameKey == <<"n", "a", "m", "e">>
IdKey == <<"i", "d">>
BioKey == <<"b", "i", "o">>
TagKey == <<"t", "a", "g">>

\* v[key] for a value v that is neither null nor undefined: a mapping's own
\* key, undefined on every other value (the keys read are no member of a
\* string, a number, a boolean or an array)
Prop(v, key) == IF IsObj(v) /\ HasKey(v, key) THEN Get(v, key) ELSE Undefined

\* v?.[key]
OptProp(v, key) == IF v \in {JsNull, Undefined} THEN Undefined ELSE Prop(v, key)

\* JavaScript's !v
Not(v) == v = Undefined \/ IsFalsy(v)

DigitChar(n) ==
    CASE n = 0 -> "0" [] n = 1 -> "1" [] n = 2 -> "2" [] n = 3 -> "3" [] n = 4 -> "4"
      [] n = 5 -> "5" [] n = 6 -> "6" [] n = 7 -> "7" [] n = 8 -> "8" [] n = 9 -> "9"

RECURSIVE NaturalToString(_)
NaturalToString(n) ==
    IF n < 10 THEN <<DigitChar(n)>>
    ELSE NaturalToString(n \div 10) \o <<DigitChar(n % 10)>>

RECURSIVE JsString(_)
RECURSIVE JoinItems(_)
\* Array.prototype.join(','): null and undefined items give the empty string
JoinItems(items) ==
    IF items = <<>> THEN <<>>
    ELSE (IF items[1] \in {JsNull, Undefined} THEN <<>> ELSE JsString(items[1]))
         \o (IF Len(items) = 1 THEN <<>> ELSE <<",">> \o JoinItems(Tail(items)))

\* String(v), the conversion behind character[v]
JsString(v) ==
    CASE v.ty = "string" -> v.s
      [] v.ty = "number" -> IF v.n < 0 THEN <<"-">> \o NaturalToString(-v.n)
                            ELSE NaturalToString(v.n)
      [] v.ty = "infinity" -> IF v.sign < 0 THEN <<"-">> \o InfinityLiteral
                              ELSE InfinityLiteral
      [] v.ty = "boolean" -> IF v.b THEN <<"t", "r", "u", "e">>
                             ELSE <<"f", "a", "l", "s", "e">>
      [] v.ty = "null" -> <<"n", "u", "l", "l">>
      [] v.ty = "undefined" -> <<"u", "n", "d", "e", "f", "i", "n", "e", "d">>
      [] v.ty = "object" -> <<"[", "o", "b", "j", "e", "c", "t", " ",
                              "O", "b", "j", "e", "c", "t", "]">>
      [] v.ty = "array" -> JoinItems(v.items)

\* JSON5.parse on the texts of the model that start with { or [: the empty
\* mapping, the empty list, a list of one numeral; any other such text here
\* is no JSON5 and makes parse throw
JSON5Parse(text) ==
    LET s == Trim(text)
    IN  IF s = <<"{", "}">> THEN [threw |-> FALSE, value |-> EmptyObj]
        ELSE IF s = <<"[", "]">> THEN [threw |-> FALSE, value |-> JsArr(<<>>)]
        ELSE IF Len(s) > 2 /\ s[1] = "[" /\ s[Len(s)] = "]"
                /\ IsDecimal(SubStr(s, 2, Len(s) - 1))
        THEN [threw |-> FALSE,
              value |-> JsArr(<<JsNum(DecimalValue(SubStr(s, 2, Len(s) - 1)))>>)]
        ELSE [threw |-> TRUE]

\* lines 409-424: the value stored for the string next
ParsedValue(next) ==
    IF Trim(next.s) # <<>> /\ Trim(next.s)[1] \in {"{", "["}
    THEN IF JSON5Parse(next.s).threw THEN next ELSE JSON5Parse(next.s).value
    ELSE next

\* the field test without the conversion of the field to a boolean: only a
\* missing field is skipped
MissingField_Undefined(field) == field = Undefined

\* line 377: !field
MissingField(field) == Not(field)

\* the test of next that lets every value through
NotString_Never(next) == FALSE

\* line 397: typeof next !== 'string'
NotString(next) == next.ty # "string"

\* lines 375-427, for an update that is neither null nor undefined: the
\* character after the call
applyUpdate(ch, update) ==
    IF MissingField(Prop(update, FieldKey)) THEN ch
    ELSE IF NotString(Prop(update, NewKey)) THEN ch
    ELSE Put(ch, JsString(Prop(update, FieldKey)), ParsedValue(Prop(update, NewKey)))

\* stringToUuid(name): a string derived from the name
stringToUuid(name) == JsStr(<<"u", "u", "i", "d", ":">> \o name.s)

\* the assignment of the name left out
SetName_Keep(ch, target) == ch

\* line 438
SetName(ch, target) == Put(ch, NameKey, target)

\* lines 439-452: the id derived from a name that is a non-empty string
SetId(ch) ==
    IF HasKey(ch, NameKey) /\ Get(ch, NameKey).ty = "string" /\ Len(Get(ch, NameKey).s) > 0
    THEN Put(ch, IdKey, stringToUuid(Get(ch, NameKey)))
    ELSE ch

\* lines 438-452
Finalize(ch, target) == SetId(SetName(ch, target))

\* the test of the response that only asks whether there is an update key
NoUpdates_Undefined(response) ==
    OptProp(OptProp(response, UpdatesKey), UpdateKey) = Undefined

\* line 364: !response?.updates?.update
NoUpdates(response) == Not(OptProp(OptProp(response, UpdatesKey), UpdateKey))

\* lines 429-436: the updates as a list
UpdateList(response) ==
    IF IsArr(Prop(Prop(response, UpdatesKey), UpdateKey))
    THEN Prop(Prop(response, UpdatesKey), UpdateKey).items
    ELSE <<Prop(Prop(response, UpdatesKey), UpdateKey)>>

\* lines 61-66: asCharacterMetadata
asCharacterMetadata(data) == IF IsObj(data) \/ IsArr(data) THEN data ELSE EmptyObj

\* line 174: metadata.entityName ?? metadata.entityUserName ?? 'Unknown User'
UnknownUser == JsStr(<<"U", "n", "k", "n", "o", "w", "n", " ", "U", "s", "e", "r">>)
ModelTarget(metadata) ==
    IF metadata.entityName \notin {JsNull, Undefined} THEN metadata.entityName
    ELSE IF metadata.entityUserName \notin {JsNull, Undefined} THEN metadata.entityUserName
    ELSE UnknownUser

\* lines 68-74: isMessageMetadataWithEntity
isMessageMetadataWithEntity(metadata) ==
    /\ metadata # Undefined
    /\ metadata.entityName.ty = "string" \/ metadata.entityUserName.ty = "string"

-----------------------------------------------------------------------------
(* The inputs of the handler: message metadata, the stored entity, and what *)
(* askLlmObjectXml returns, the parse of a response document                *)

EntityId == JsStr(<<"E">>)
WorldId == JsStr(<<"W">>)
Ann == JsStr(<<"A", "n", "n">>)
Ann1 == JsStr(<<"a", "n", "n", "1">>)

Metadata(entityName, entityUserName, sourceId) ==
    [ty |-> "object", entityName |-> entityName, entityUserName |-> entityUserName,
     sourceId |-> sourceId]

\* message.metadata: undefined, or an object with or without the two names and
\* the sourceId
Messages ==
    {Undefined}
    \cup {Metadata(n, u, sid) : n \in {Undefined, Ann}, u \in {Undefined, Ann1},
                                sid \in {Undefined, EntityId}}

Component(id, type, createdAt, data) ==
    [id |-> id, entityId |-> EntityId, agentId |-> "agent", roomId |-> "room",
     worldId |-> WorldId, sourceEntityId |-> "sender", type |-> type,
     createdAt |-> createdAt, data |-> data]

\* line 21
COMPONENT_TYPE_CHARACTER == "CHARACTER"

OldCharacter ==
    JsObj(<<[key |-> NameKey, val |-> JsStr(<<"O", "l", "d">>)],
            [key |-> BioKey, val |-> JsStr(<<"o", "l", "d">>)]>>)

\* the database before the invocations: no entity, an entity without a
\* character component, an entity with an empty or a filled character
Stores ==
    {[entity |-> FALSE, components |-> <<>>],
     [entity |-> TRUE, components |-> <<Component("c9", "OTHER", 1, EmptyObj)>>],
     [entity |-> TRUE, components |-> <<Component("c0", COMPONENT_TYPE_CHARACTER, 1, EmptyObj)>>],
     [entity |-> TRUE,
      components |-> <<Component("c9", "OTHER", 1, EmptyObj),
                       Component("c0", COMPONENT_TYPE_CHARACTER, 1, OldCharacter)>>]}

El(tagName, children) == Element(tagName, <<>>, children, FALSE)
Txt(tagName, text) == Element(tagName, <<>>, <<TextNode(text)>>, FALSE)

\* <response><updates> ... </updates></response>
ResponseDoc(children) ==
    El(<<"r", "e", "s", "p", "o", "n", "s", "e">>, <<El(UpdatesKey, children)>>)

\* <update><field>..</field><new>..</new></update>
UpdateEl(field, new) == El(UpdateKey, <<Txt(FieldKey, field), Txt(NewKey, new)>>)

BioUpdateDoc == ResponseDoc(<<UpdateEl(BioKey, <<"x">>)>>)
TagUpdateDoc == ResponseDoc(<<UpdateEl(TagKey, <<"y">>)>>)
NameUpdateDoc == ResponseDoc(<<UpdateEl(NameKey, <<"Z", "e", "d">>)>>)
EmptyFieldDoc == ResponseDoc(<<El(UpdateKey, <<El(FieldKey, <<>>), Txt(NewKey, <<"x">>)>>)>>)
NullItemDoc == ResponseDoc(<<Txt(UpdateKey, <<"n", "u", "l", "l">>), UpdateEl(BioKey, <<"x">>)>>)

\* the response documents: updates of one field with a new value that is a
\* word, a numeral, a boolean, null, a nested element, JSON-like text; an
\* update of the name; updates with an empty, a missing, a numeric field; two
\* updates; an update that is text, 0 or null; no update; no updates
HandlerDocuments ==
    {BioUpdateDoc, TagUpdateDoc, NameUpdateDoc, EmptyFieldDoc, NullItemDoc,
     ResponseDoc(<<UpdateEl(BioKey, <<"7">>)>>),
     ResponseDoc(<<UpdateEl(BioKey, <<"t", "r", "u", "e">>)>>),
     ResponseDoc(<<UpdateEl(BioKey, <<"n", "u", "l", "l">>)>>),
     ResponseDoc(<<El(UpdateKey, <<Txt(FieldKey, BioKey),
                                   El(NewKey, <<Txt(<<"x">>, <<"1">>)>>)>>)>>),
     ResponseDoc(<<UpdateEl(BioKey, <<"{", "}">>)>>),
     ResponseDoc(<<UpdateEl(BioKey, <<"{", "o">>)>>),
     ResponseDoc(<<El(UpdateKey, <<Txt(NewKey, <<"x">>)>>)>>),
     ResponseDoc(<<UpdateEl(<<"7">>, <<"x">>)>>),
     ResponseDoc(<<UpdateEl(BioKey, <<"x">>), UpdateEl(NameKey, <<"Z", "e", "d">>)>>),
     ResponseDoc(<<Txt(UpdateKey, <<"n", "o", "n", "e">>)>>),
     ResponseDoc(<<Txt(UpdateKey, <<"0">>)>>),
     ResponseDoc(<<>>),
     El(<<"r", "e", "s", "p", "o", "n", "s", "e">>, <<Txt(<<"o", "k">>, <<"1">>)>>)}

\* line 113 with line 128: what askLlmObjectXml returns for the document d,
\* parsed with or without a DOMParser
AskResult(d, mode) == parseXml(StringArg(Serialize(d)), DefaultOptions, mode, d)

\* the values askLlmObjectXml returns: null, or the parse of a document
AskResults ==
    {JsNull} \cup {AskResult(d, mode) : d \in HandlerDocuments, mode \in {"ok", "absent"}}

-----------------------------------------------------------------------------
(* The handler as a state machine: one step per stretch of code between    *)
(* two awaits, and one per applyUpdate call                                *)

\* entity.components?.find((component) => component.type === 'CHARACTER')
FindCharacter(components) ==
    IF \E k \in 1..Len(components) : components[k].type = COMPONENT_TYPE_CHARACTER
    THEN components[Least({k \in 1..Len(components) :
                              components[k].type = COMPONENT_TYPE_CHARACTER})]
    ELSE NoComponent

\* what runtime.getEntityById may resolve to: the stored entity, or null
EntityReads == IF store.entity THEN {TRUE, FALSE} ELSE {FALSE}

\* lines 245-255: the component createComponent is called with
NewComponent(i) ==
    Component(IF i = 1 THEN "c1" ELSE "c2", COMPONENT_TYPE_CHARACTER, 2, EmptyObj)

\* lines 456-466: the argument of updateComponent
Payload(comp, ch) == [comp EXCEPT !.data = ch]

\* runtime.updateComponent(payload): the stored component of that id replaced
StoreUpdate(components, payload) ==
    [k \in 1..Len(components) |->
        IF components[k].id = payload.id THEN payload ELSE components[k]]

InitHandler ==
    /\ store \in Stores
    /\ message \in {[i \in Procs |-> IF i = 1 THEN m ELSE Undefined] : m \in Messages}
    /\ reply \in {[i \in Procs |-> IF i = 1 THEN r ELSE JsNull] : r \in AskResults}
    /\ hpc = [i \in Procs |-> IF i = 1 THEN "call" ELSE "idle"]
    /\ modelTarget = [i \in Procs |-> Undefined]
    /\ characterComp = [i \in Procs |-> NoComponent]
    /\ character = [i \in Procs |-> EmptyObj]
    /\ updates = [i \in Procs |-> <<>>]
    /\ applied = [i \in Procs |-> 0]
    /\ updateCalls = [i \in Procs |-> <<>>]
    /\ XmlIdle /\ ZodIdle /\ CoerceIdle /\ AskIdle /\ FlatIdle

\* two invocations for the same entity, whose model calls propose updates of
\* different fields
InitOverlap ==
    /\ store \in Stores
    /\ message = [i \in Procs |-> Metadata(Ann, Undefined, EntityId)]
    /\ reply = [i \in Procs |-> IF i = 1 THEN AskResult(BioUpdateDoc, "ok")
                                ELSE AskResult(TagUpdateDoc, "ok")]
    /\ hpc = [i \in Procs |-> "call"]
    /\ modelTarget = [i \in Procs |-> Undefined]
    /\ characterComp = [i \in Procs |-> NoComponent]
    /\ character = [i \in Procs |-> EmptyObj]
    /\ updates = [i \in Procs |-> <<>>]
    /\ applied = [i \in Procs |-> 0]
    /\ updateCalls = [i \in Procs |-> <<>>]
    /\ XmlIdle /\ ZodIdle /\ CoerceIdle /\ AskIdle /\ FlatIdle

Others == <<xmlVars, zodVars, coerceVars, askVars, flatVars>>

\* lines 147-186: the metadata guards, modelTarget, the call of getEntityById
HEnter(i) ==
    /\ hpc[i] = "call"
    /\ IF ~isMessageMetadataWithEntity(message[i]) THEN
          hpc' = [hpc EXCEPT ![i] = "returned"] /\ UNCHANGED modelTarget
       ELSE IF Not(message[i].sourceId) THEN
          hpc' = [hpc EXCEPT ![i] = "returned"] /\ UNCHANGED modelTarget
       ELSE /\ modelTarget' = [modelTarget EXCEPT ![i] = ModelTarget(message[i])]
            /\ hpc' = [hpc EXCEPT ![i] = "getEntity"]
    /\ UNCHANGED <<store, message, reply, characterComp, character, updates, applied,
                   updateCalls>>
    /\ UNCHANGED Others

\* lines 217-232 and 268-283: the character component of the entity read;
\* without one the handler goes on at missing
OnEntity(i, comp, missing) ==
    IF comp # NoComponent
    THEN /\ characterComp' = [characterComp EXCEPT ![i] = comp]
         /\ character' = [character EXCEPT ![i] = asCharacterMetadata(comp.data)]
         /\ hpc' = [hpc EXCEPT ![i] = "compose"]
    ELSE /\ hpc' = [hpc EXCEPT ![i] = missing]
         /\ UNCHANGED <<characterComp, character>>

\* lines 186-232: getEntityById has resolved
HGotEntity(i) ==
    /\ hpc[i] = "getEntity"
    /\ \E found \in EntityReads :
          IF found THEN OnEntity(i, FindCharacter(store.components), "getRoom")
          ELSE /\ hpc' = [hpc EXCEPT ![i] = "createEntity"]
               /\ UNCHANGED <<characterComp, character>>
    /\ UNCHANGED <<store, message, reply, modelTarget, updates, applied, updateCalls>>
    /\ UNCHANGED Others

\* lines 188-204: createEntity has resolved
HCreatedEntity(i) ==
    /\ hpc[i] = "createEntity"
    /\ \E created \in BOOLEAN :
          IF created
          THEN /\ store' = [store EXCEPT !.entity = TRUE]
               /\ hpc' = [hpc EXCEPT ![i] = "refetchEntity"]
          ELSE /\ hpc' = [hpc EXCEPT ![i] = "returned"]
               /\ UNCHANGED store
    /\ UNCHANGED <<message, reply, modelTarget, characterComp, character, updates,
                   applied, updateCalls>>
    /\ UNCHANGED Others

\* lines 204-232: the second getEntityById has resolved
HRefetchedEntity(i) ==
    /\ hpc[i] = "refetchEntity"
    /\ \E found \in EntityReads :
          IF found THEN OnEntity(i, FindCharacter(store.components), "getRoom")
          ELSE /\ hpc' = [hpc EXCEPT ![i] = "returned"]
               /\ UNCHANGED <<characterComp, character>>
    /\ UNCHANGED <<store, message, reply, modelTarget, updates, applied, updateCalls>>
    /\ UNCHANGED Others

\* lines 233-255: getRoom has resolved, with or without a worldId
HGotRoom(i) ==
    /\ hpc[i] = "getRoom"
    /\ \E worldId \in {Undefined, WorldId} :
          hpc' = [hpc EXCEPT ![i] = IF worldId = Undefined THEN "returned"
                                    ELSE "createComponent"]
    /\ UNCHANGED <<store, message, reply, modelTarget, characterComp, character,
                   updates, applied, updateCalls>>
    /\ UNCHANGED Others

\* lines 245-267: createComponent has resolved
HCreatedComponent(i) ==
    /\ hpc[i] = "createComponent"
    /\ \E created \in BOOLEAN :
          IF created
          THEN /\ store' = [store EXCEPT !.components = Append(@, NewComponent(i))]
               /\ hpc' = [hpc EXCEPT ![i] = "refetchComponent"]
          ELSE /\ hpc' = [hpc EXCEPT ![i] = "returned"]
               /\ UNCHANGED store
    /\ UNCHANGED <<message, reply, modelTarget, characterComp, character, updates,
                   applied, updateCalls>>
    /\ UNCHANGED Others

\* lines 267-283: the getEntityById after the creation has resolved
HRefetchedComponent(i) ==
    /\ hpc[i] = "refetchComponent"
    /\ \E found \in EntityReads :
          IF found THEN OnEntity(i, FindCharacter(store.components), "returned")
          ELSE /\ hpc' = [hpc EXCEPT ![i] = "returned"]
               /\ UNCHANGED <<characterComp, character>>
    /\ UNCHANGED <<store, message, reply, modelTarget, updates, applied, updateCalls>>
    /\ UNCHANGED Others

\* lines 285-361: composeState, getEntityDetails, getMemories and
\* formatMessages have resolved, the prompt is built and the model is asked
HComposed(i) ==
    /\ hpc[i] = "compose"
    /\ hpc' = [hpc EXCEPT ![i] = "ask"]
    /\ UNCHANGED <<store, message, reply, modelTarget, characterComp, character,
                   updates, applied, updateCalls>>
    /\ UNCHANGED Others

\* lines 361-373 and 429-430: askLlmObjectXml has returned
HAsked(i) ==
    /\ hpc[i] = "ask"
    /\ IF NoUpdates(reply[i])
       THEN /\ hpc' = [hpc EXCEPT ![i] = "returned"]
            /\ UNCHANGED <<updates, applied>>
       ELSE /\ updates' = [updates EXCEPT ![i] = UpdateList(reply[i])]
            /\ applied' = [applied EXCEPT ![i] = 0]
            /\ hpc' = [hpc EXCEPT ![i] = "apply"]
    /\ UNCHANGED <<store, message, reply, modelTarget, characterComp, character,
                   updateCalls>>
    /\ UNCHANGED Others

\* line 361: askLlmObjectXml rejects (the model call rejected)
HAskRejected(i) ==
    /\ hpc[i] = "ask"
    /\ hpc' = [hpc EXCEPT ![i] = "rejected"]
    /\ UNCHANGED <<store, message, reply, modelTarget, characterComp, character,
                   updates, applied, updateCalls>>
    /\ UNCHANGED Others

\* lines 431-435: one call of applyUpdate; reading the field of an update
\* that is null throws
HApply(i) ==
    /\ hpc[i] = "apply"
    /\ applied[i] < Len(updates[i])
    /\ IF updates[i][applied[i] + 1] \in {JsNull, Undefined}
       THEN /\ hpc' = [hpc EXCEPT ![i] = "rejected"]
            /\ UNCHANGED <<character, applied>>
       ELSE /\ character' = [character EXCEPT
                                ![i] = applyUpdate(@, updates[i][applied[i] + 1])]
            /\ applied' = [applied EXCEPT ![i] = @ + 1]
            /\ UNCHANGED hpc
    /\ UNCHANGED <<store, message, reply, modelTarget, characterComp, updates,
                   updateCalls>>
    /\ UNCHANGED Others

\* lines 438-466: the name, the id and the call of updateComponent
HPersist(i) ==
    /\ hpc[i] = "apply"
    /\ applied[i] = Len(updates[i])
    /\ character' = [character EXCEPT ![i] = Finalize(@, modelTarget[i])]
    /\ updateCalls' = [updateCalls EXCEPT
                          ![i] = Append(@, Payload(characterComp[i], character'[i]))]
    /\ hpc' = [hpc EXCEPT ![i] = "update"]
    /\ UNCHANGED <<store, message, reply, modelTarget, characterComp, updates, applied>>
    /\ UNCHANGED Others

\* line 456: updateComponent has written and resolved; the handler returns
HUpdated(i) ==
    /\ hpc[i] = "update"
    /\ store' = [store EXCEPT
                    !.components = StoreUpdate(@, updateCalls[i][Len(updateCalls[i])])]
    /\ hpc' = [hpc EXCEPT ![i] = "returned"]
    /\ UNCHANGED <<message, reply, modelTarget, characterComp, character, updates,
                   applied, updateCalls>>
    /\ UNCHANGED Others

NextHandler ==
    \E i \in Procs :
        \/ HEnter(i) \/ HGotEntity(i) \/ HCreatedEntity(i) \/ HRefetchedEntity(i)
        \/ HGotRoom(i) \/ HCreatedComponent(i) \/ HRefetchedComponent(i)
        \/ HComposed(i) \/ HAsked(i) \/ HAskRejected(i) \/ HApply(i)
        \/ HPersist(i) \/ HUpdated(i)

\* one invocation
SpecHandler == InitHandler /\ [][NextHandler]_vars

\* two invocations whose steps interleave at the awaits
SpecOverlap == InitOverlap /\ [][NextHandler]_vars

-----------------------------------------------------------------------------
(* Claims about parseXml (checked under SpecXml)                           *)

WellFormed == doc # NoDoc
Returned == pc = "done"
\* the strategy whose value was returned
FullMode == Returned /\ consulted = <<"dom">>
DegradedMode == Returned /\ consulted # <<>> /\ consulted[Len(consulted)] = "regex"

ChildTags(element) == {Children(element)[i].tagName : i \in 1..Len(Children(element))}
\* the children of element carrying tag, in document order
Occurrences(element, tag) == SelectSeq(Children(element), LAMBDA c : c.tagName = tag)

\* <a><b>1</b><b>2</b></a>
ExampleAB ==
    Element(<<"a">>, <<>>,
            <<Element(<<"b">>, <<>>, <<TextNode(<<"1">>)>>, FALSE),
              Element(<<"b">>, <<>>, <<TextNode(<<"2">>)>>, FALSE)>>, FALSE)
\* { b: [1, 2] }
ExampleABMapping == JsObj(<<[key |-> <<"b">>, val |-> JsArr(<<JsNum(1), JsNum(2)>>)]>>)

C7_ErrorsFallBack ==
    /\ pc # "threw"
    /\ (Returned /\ xml.isString /\ Trim(xml.chars) # <<>> /\ dom # "ok")
           => /\ DegradedMode
              /\ result = parseWithRegexFallback(xml.chars, options)

C7_Witness ==
    /\ Returned /\ dom = "throwsInWalk" /\ consulted = <<"dom", "regex">>
    /\ IsObj(result)

\* C8: for every non-string input and every empty or whitespace-only string,
\* under every combination of options, parseXml returns null without throwing
\* and without consulting either parsing strategy.
C8_BlankInputIsNull ==
    (~xml.isString \/ \A i \in 1..Len(xml.chars) : xml.chars[i] \in WhiteSpace)
        => /\ pc \in {"call", "done"}
           /\ consulted = <<>>
           /\ Returned => result = JsNull

C8_Witness ==
    /\ Returned /\ xml = StringArg(<<"\n", " ">>) /\ dom = "parsererror"
    /\ ~options.arrayize /\ options.includeAttributes /\ ~options.coercePrimitives
    /\ result = JsNull /\ consulted = <<>>

RECURSIVE C9_MappingOk(_, _)
\* the mapping v produced for element: its keys are the distinct child tags
\* (plus '@attrs'), a tag's value is a sequence exactly when the tag occurs
\* at least twice, with one entry per occurrence, and so on below
C9_MappingOk(element, v) ==
    IsObj(v) =>
        /\ Keys(v) \ {AttrsKey} = ChildTags(element)
        /\ \A tag \in ChildTags(element) :
              LET occ == Occurrences(element, tag)
                  val == Get(v, tag)
              IN  /\ IsArr(val) <=> Len(occ) >= 2
                  /\ IsArr(val) => Len(val.items) = Len(occ)
                  /\ IF IsArr(val)
                     THEN \A j \in 1..Len(occ) : C9_MappingOk(occ[j], val.items[j])
                     ELSE C9_MappingOk(occ[1], val)

\* C9: with arrayize enabled, in every mapping produced (full or degraded mode)
\* the value under a tag is a sequence iff the tag occurs at least twice among
\* the children of that parent, one entry per occurrence, and the key set is
\* the set of distinct child tag names.
C9_SequenceIffRepeated ==
    (Returned /\ WellFormed /\ options.arrayize) => C9_MappingOk(doc, result)

\* the same in full mode only
C9_FullModeOnly ==
    (FullMode /\ WellFormed /\ options.arrayize) => C9_MappingOk(doc, result)

\* the text between an element's tags
InnerText(element) ==
    Concat([i \in 1..Len(element.childNodes) |-> Serialize(element.childNodes[i])])

\* the value a strategy gives one element
ValueIn(full, opts, element) ==
    IF full THEN walk(opts, element)
    ELSE IF TagTest(InnerText(element))
         THEN parseFlatByRegex(InnerText(element), opts)
         ELSE FlatLeaf(opts, InnerText(element))

RECURSIVE C10_LastWins(_, _, _, _)
C10_LastWins(full, opts, element, v) ==
    IsObj(v) =>
        \A tag \in ChildTags(element) :
            LET occ == Occurrences(element, tag)
                last == occ[Len(occ)]
            IN  Len(occ) >= 2 =>
                   /\ HasKey(v, tag)
                   /\ ~IsArr(Get(v, tag))
                   /\ Get(v, tag) = ValueIn(full, opts, last)
                   /\ C10_LastWins(full, opts, last, Get(v, tag))

\* C10: with arrayize false, a tag that occurs several times among the children
\* of one parent holds the value of its last occurrence only, never a sequence,
\* in full and in degraded mode.
C10_LastOccurrenceWins ==
    (Returned /\ WellFormed /\ ~options.arrayize /\ (FullMode \/ DegradedMode))
        => C10_LastWins(FullMode, options, doc, result)

\* the same in full mode only
C10_FullModeOnly ==
    (FullMode /\ WellFormed /\ ~options.arrayize)
        => C10_LastWins(TRUE, options, doc, result)

-----------------------------------------------------------------------------
(* Claims about utils_zod.ts (checked under SpecZod and SpecUnwrap)        *)

Called(fn) == zpc = "done" /\ zresult.fn = fn

KindOf(h, x) == IF isZodSchema(h, x) THEN h[x].typeName ELSE NoTypeName

RECURSIVE Peeled(_, _)
\* the schema under the transparent wrappers of x (optional and nullable
\* wrap innerType, effects wrap schema, branded wraps type), 0 if x is no
\* schema: what "the unwrapped schema" of a field means in the claims
Peeled(h, x) ==
    IF ~isZodSchema(h, x) THEN 0
    ELSE IF h[x].typeName \in {"ZodOptional", "ZodNullable"} THEN Peeled(h, h[x].innerType)
    ELSE IF h[x].typeName = "ZodEffects" THEN Peeled(h, h[x].schema)
    ELSE IF h[x].typeName = "ZodBranded" THEN Peeled(h, h[x].type)
    ELSE x

\* C2: typeToString on an array-kind node whose element type is T returns
\* "array<" + typeToString(T) + ">", for every element type T.
C2_ArrayRendersElement ==
    (Called("typeToString") /\ KindOf(heap, root) = "ZodArray"
                            /\ isZodSchema(heap, heap[root].type))
        => zresult.value = "array<" \o typeToString(heap, heap[root].type) \o ">"

\* C3: in collectFields, for every field at path P whose unwrapped schema is an
\* array whose element is object-kind, the element object's fields are emitted
\* with paths P + "[]" + "." + key, after P's own row.
C3_ArrayOfObjectPaths ==
    (Called("collectFields") /\ KindOf(heap, Peeled(heap, root)) = "ZodObject")
        => LET rows == zresult.value
               shape == heap[Peeled(heap, root)].shape
           IN  \A i \in 1..Len(shape) :
                  LET P == shape[i].key
                      arr == Peeled(heap, shape[i].schema)
                      elem == IF KindOf(heap, arr) = "ZodArray"
                              THEN Peeled(heap, heap[arr].type) ELSE 0
                  IN  KindOf(heap, elem) = "ZodObject" =>
                         \A k \in 1..Len(heap[elem].shape) :
                            \E q, r \in 1..Len(rows) :
                               /\ q < r
                               /\ rows[q].path = P
                               /\ rows[r].path = P \o "[]" \o "." \o heap[elem].shape[k].key

\* C4: typeToString renders a terminal node of kind null, undefined, unknown or
\* any as "null", "undefined", "unknown" and "any", whatever its isOptional()
\* answers.
C4_TerminalKindsRenderThemselves ==
    Called("typeToString") =>
        /\ KindOf(heap, root) = "ZodNull" => zresult.value = "null"
        /\ KindOf(heap, root) = "ZodUndefined" => zresult.value = "undefined"
        /\ KindOf(heap, root) = "ZodUnknown" => zresult.value = "unknown"
        /\ KindOf(heap, root) = "ZodAny" => zresult.value = "any"

\* C5: collectFields returns an empty sequence for every schema whose kind is
\* not object (primitives, unions, records, arrays, arrays of objects included)
\* and for any value that is not a schema node.
C5_NonObjectYieldsNothing ==
    (Called("collectFields") /\ KindOf(heap, Peeled(heap, root)) # "ZodObject")
        => zresult.value = <<>>

\* C6: unwrap terminates on every object graph reachable through innerType,
\* schema and type, wrapper chains that refer back to an earlier node included.
C6_UnwrapTerminates == <>(zpc = "returned")

-----------------------------------------------------------------------------
(* Claims about coerce (checked under SpecCoerce)                          *)

\* a text that is entirely a finite number: an optionally signed run of digits
IsFiniteNumberText(s) ==
    IF s # <<>> /\ s[1] \in {"+", "-"} THEN IsDecimal(SubStr(s, 2, Len(s))) ELSE IsDecimal(s)

FiniteNumberValue(s) ==
    IF s[1] = "-" THEN 0 - DecimalValue(SubStr(s, 2, Len(s)))
    ELSE IF s[1] = "+" THEN DecimalValue(SubStr(s, 2, Len(s)))
    ELSE DecimalValue(s)

\* C11: with coercePrimitives enabled, trimmed "true"/"false" give a boolean,
\* "null" gives null, a text that is entirely a finite number gives that
\* number, and every other text (the empty string and "Infinity" included)
\* gives the trimmed string.
C11_CoerceTable ==
    (coerced.returned /\ options.coercePrimitives) =>
        LET s == Trim(leafText)
        IN  coerced.value =
               IF s = <<"t", "r", "u", "e">> THEN JsBool(TRUE)
               ELSE IF s = <<"f", "a", "l", "s", "e">> THEN JsBool(FALSE)
               ELSE IF s = <<"n", "u", "l", "l">> THEN JsNull
               ELSE IF IsFiniteNumberText(s) THEN JsNum(FiniteNumberValue(s))
               ELSE JsStr(s)

-----------------------------------------------------------------------------
(* Further claims about parseXml (checked under SpecXml)                   *)

IsTextOnly(element) ==
    /\ Len(element.childNodes) > 0
    /\ \A i \in 1..Len(element.childNodes) : element.childNodes[i].nodeType = 3

RECURSIVE C12_RawLeaves(_, _)
\* v is the value parseXml produced for element: a text-only element's value
\* is its text, unmodified; below a mapping, a tag that occurs once is compared
\* with its value, a repeated tag with the sequence's entries in order
C12_RawLeaves(element, v) ==
    IF IsTextOnly(element) THEN v = JsStr(TextContent(element))
    ELSE IsObj(v) =>
            \A tag \in ChildTags(element) \cap Keys(v) :
               LET occ == Occurrences(element, tag)
                   got == Get(v, tag)
               IN  /\ (Len(occ) = 1 /\ ~IsArr(got)) => C12_RawLeaves(occ[1], got)
                   /\ (IsArr(got) /\ Len(got.items) = Len(occ)) =>
                          \A j \in 1..Len(occ) : C12_RawLeaves(occ[j], got.items[j])

\* C12: with coercePrimitives false, every leaf value parseXml returns is the
\* element's raw text as a string, not trimmed and not converted, in full mode
\* and in degraded mode.
C12_LeavesAreRawText ==
    (Returned /\ WellFormed /\ ~options.coercePrimitives /\ IsObj(result))
        => C12_RawLeaves(doc, result)

\* the same in full mode only
C12_FullModeOnly ==
    (FullMode /\ WellFormed /\ ~options.coercePrimitives /\ IsObj(result))
        => C12_RawLeaves(doc, result)

RECURSIVE C13_EmptyElements(_, _)
\* v is the value parseXml produced for element: an element without child
\* nodes gives a mapping without child keys; below a mapping, a tag that occurs
\* once is compared with its value, a repeated tag with the sequence's entries
C13_EmptyElements(element, v) ==
    IF element.childNodes = <<>> THEN IsObj(v) /\ Keys(v) \ {AttrsKey} = {}
    ELSE IsObj(v) =>
            \A tag \in ChildTags(element) \cap Keys(v) :
               LET occ == Occurrences(element, tag)
                   got == Get(v, tag)
               IN  /\ (Len(occ) = 1 /\ ~IsArr(got)) => C13_EmptyElements(occ[1], got)
                   /\ (IsArr(got) /\ Len(got.items) = Len(occ)) =>
                          \A j \in 1..Len(occ) : C13_EmptyElements(occ[j], got.items[j])

\* C13: an element with no text and no element children is parsed to an empty
\* mapping, never to a leaf value, as root or as a child, in full mode and in
\* degraded mode.
C13_EmptyElementIsMapping ==
    (Returned /\ WellFormed) => C13_EmptyElements(doc, result)

\* the same in full mode only
C13_FullModeOnly ==
    (FullMode /\ WellFormed) => C13_EmptyElements(doc, result)

\* C14: for every well-formed input without attributes the full strategy and
\* the degraded strategy return the same result under the same options: what
\* the call returned is what either strategy gives for the input.
C14_StrategiesAgree ==
    (Returned /\ WellFormed /\ doc.attributes = <<>>)
        => /\ result = WalkDocument(options, doc)
           /\ result = parseWithRegexFallback(xml.chars, options)

RECURSIVE NoAttrsKey(_)
\* no '@attrs' key anywhere in v
NoAttrsKey(v) ==
    IF IsObj(v)
    THEN /\ ~HasKey(v, AttrsKey)
         /\ \A i \in 1..Len(v.entries) : NoAttrsKey(v.entries[i].val)
    ELSE IsArr(v) => \A i \in 1..Len(v.items) : NoAttrsKey(v.items[i])

\* the attribute mapping of element: each attribute name with its coerced value
AttrsMapping(opts, element) ==
    JsObj([i \in 1..Len(element.attributes) |->
              [key |-> element.attributes[i].name,
               val |-> coerce(opts.coercePrimitives, element.attributes[i].value)]])

\* the elements without attributes below the root carry no '@attrs' key
ChildrenCarryNoAttrs ==
    IsObj(result) =>
        \A i \in 1..Len(result.entries) :
            result.entries[i].key # AttrsKey => NoAttrsKey(result.entries[i].val)

\* C15 as claimed: in full mode with includeAttributes true, the parsed node of
\* every element with at least one attribute, whether it has element children
\* or only text, carries '@attrs' mapping each attribute name to its coerced
\* value; with includeAttributes false, or for an element without attributes,
\* no '@attrs' key appears.
C15_AttrsOnEveryElement ==
    (FullMode /\ WellFormed) =>
        /\ (options.includeAttributes /\ doc.attributes # <<>>)
               => /\ IsObj(result) /\ HasKey(result, AttrsKey)
                  /\ Get(result, AttrsKey) = AttrsMapping(options, doc)
        /\ (~options.includeAttributes \/ doc.attributes = <<>>) => NoAttrsKey(result)
        /\ ChildrenCarryNoAttrs

\* C15 amended: the '@attrs' key is carried by every element with attributes
\* that is not text-only, as the first key of its mapping; a text-only element
\* yields its coerced text and its attributes are dropped; with
\* includeAttributes false, or for an element without attributes, no '@attrs'
\* key appears.
C15_AttrsOnBranches ==
    (FullMode /\ WellFormed) =>
        /\ (options.includeAttributes /\ doc.attributes # <<>> /\ ~IsTextOnly(doc))
               => /\ IsObj(result) /\ HasKey(result, AttrsKey)
                  /\ result.entries[1].key = AttrsKey
                  /\ Get(result, AttrsKey) = AttrsMapping(options, doc)
        /\ (options.includeAttributes /\ doc.attributes # <<>> /\ IsTextOnly(doc))
               => result = coerce(options.coercePrimitives, TextContent(doc))
        /\ (~options.includeAttributes \/ doc.attributes = <<>>) => NoAttrsKey(result)
        /\ ChildrenCarryNoAttrs

C15_Witness ==
    /\ FullMode /\ options.includeAttributes /\ doc.attributes # <<>>
    /\ Children(doc) # <<>>
    /\ IsObj(result) /\ Get(result, AttrsKey) = JsObj(<<[key |-> <<"x">>, val |-> JsNum(1)]>>)

RECURSIVE NoEmptyMapping(_)
\* no mapping without keys anywhere in v
NoEmptyMapping(v) ==
    IF IsObj(v)
    THEN /\ v.entries # <<>>
         /\ \A i \in 1..Len(v.entries) : NoEmptyMapping(v.entries[i].val)
    ELSE IsArr(v) => \A i \in 1..Len(v.items) : NoEmptyMapping(v.items[i])

HasNoTag(chars) == \A i \in 1..Len(chars) : chars[i] # "<"

\* C16: the degraded path returns null, never an empty mapping, when the text
\* has no outermost tag pair and when the scan of the root's inner text finds
\* no tag pair; text without any tag yields null in full and in degraded mode.
C16_NoStructureIsNull ==
    /\ DegradedMode =>
          /\ NoEmptyMapping(result)
          /\ ~RootMatch(xml.chars).found => result = JsNull
          /\ (RootMatch(xml.chars).found /\ ~TagTest(RootMatch(xml.chars).body))
                 => result = JsNull
    /\ (Returned /\ xml.isString /\ HasNoTag(xml.chars)) => result = JsNull

C16_Witness ==
    /\ DegradedMode /\ dom = "absent"
    /\ doc = Element(<<"a">>, <<>>, <<TextNode(<<"1">>)>>, FALSE)
    /\ result = JsNull

-----------------------------------------------------------------------------
(* Further claims about utils_zod.ts (checked under SpecZod)               *)

\* C17: for an object-kind schema with N declared top-level fields,
\* schemaToPrompt returns one header line ("Schema: <description>" or bare
\* "Schema:") followed by at least N field lines, one per field descriptor in
\* traversal order; for a non-object or unrecognizable schema it returns the
\* header line alone.
C17_HeaderAndFieldLines ==
    Called("schemaToPrompt") =>
        LET lines == zresult.value.lines
            fields == collectFields(heap, root, "")
        IN  /\ Len(lines) >= 1
            /\ lines[1] \in {"Schema:", "Schema: about", "Schema: note"}
            /\ zresult.value.text = Join(lines, "\n")
            /\ KindOf(heap, root) = "ZodObject" =>
                   /\ Len(lines) - 1 >= Len(heap[root].shape)
                   /\ Len(lines) - 1 = Len(fields)
                   /\ \A i \in 1..Len(fields) :
                          \E req \in {"required", "optional"}, d \in {"", " -- note"} :
                             lines[i + 1] = "- " \o fields[i].path \o " ("
                                                 \o fields[i].type \o ", " \o req \o ")" \o d
            /\ KindOf(heap, Peeled(heap, root)) # "ZodObject" => Len(lines) = 1

\* the same without the last part: the lines of an object-kind schema
C17_ObjectSchemasOnly ==
    Called("schemaToPrompt") =>
        LET lines == zresult.value.lines
        IN  /\ Len(lines) >= 1
            /\ lines[1] \in {"Schema:", "Schema: about", "Schema: note"}
            /\ KindOf(heap, root) = "ZodObject" =>
                   /\ Len(lines) - 1 >= Len(heap[root].shape)
                   /\ Len(lines) - 1 = Len(collectFields(heap, root, ""))

\* the paths of the declared keys of object node obj under prefix
KeyPath(h, obj, prefix, i) ==
    IF prefix # "" THEN prefix \o "." \o h[obj].shape[i].key ELSE h[obj].shape[i].key

\* the index of the first row of rows whose path is p, 0 if there is none
RowIndex(rows, p) ==
    IF \E q \in 1..Len(rows) : rows[q].path = p
    THEN Least({q \in 1..Len(rows) : rows[q].path = p})
    ELSE 0

RECURSIVE C18_PreOrder(_, _, _, _)
\* rows are the descriptors of object node obj under prefix, in depth-first
\* pre-order: every declared key has its own row, the first key's row comes
\* first, the keys' rows follow declaration order, and the rows between the row
\* of a key whose unwrapped schema is an object and the next key's row are
\* that object's descriptors under the key's path, in the same order
C18_PreOrder(h, obj, prefix, rows) ==
    LET n == Len(h[obj].shape)
        At(i) == RowIndex(rows, KeyPath(h, obj, prefix, i))
        BlockEnd(i) == IF i < n THEN At(i + 1) - 1 ELSE Len(rows)
    IN  /\ \A i \in 1..n : At(i) # 0
        /\ n > 0 => At(1) = 1
        /\ \A i \in 1..(n - 1) : At(i) < At(i + 1)
        /\ \A i \in 1..n :
               LET inner == Peeled(h, h[obj].shape[i].schema)
               IN  KindOf(h, inner) = "ZodObject" =>
                      C18_PreOrder(h, inner, KeyPath(h, obj, prefix, i),
                                   SubStr(rows, At(i) + 1, BlockEnd(i)))

\* C18: collectFields emits descriptors in depth-first pre-order over
\* declaration order: each declared key yields its own row, and when its
\* unwrapped schema is object-kind that row is immediately followed by the
\* rows of all its nested fields before the next sibling's row.
C18_DepthFirstPreOrder ==
    (Called("collectFields") /\ KindOf(heap, Peeled(heap, root)) = "ZodObject")
        => C18_PreOrder(heap, Peeled(heap, root), "", zresult.value)

\* C19: typeToString renders "unknown" for every input whose kind is not in
\* its table or that is no schema node, and a member of a union, array, record
\* or tuple is rendered at its position, "unknown" when it is unrecognized,
\* without aborting the rendering of its siblings.
Rendered(h, x) == IF isZodSchema(h, x) THEN typeToString(h, x) ELSE "unknown"

C19_UnknownInPlace ==
    Called("typeToString") =>
        /\ KindOf(heap, root) \in {NoTypeName, "ZodFunction"} => zresult.value = "unknown"
        /\ KindOf(heap, root) = "ZodArray" =>
               zresult.value = "array<" \o Rendered(heap, heap[root].type) \o ">"
        /\ KindOf(heap, root) = "ZodRecord" =>
               zresult.value = "record<string, " \o Rendered(heap, heap[root].valueType) \o ">"
        /\ (KindOf(heap, root) = "ZodUnion" /\ ~heap[root].isOptional) =>
               zresult.value = Rendered(heap, heap[root].options[1]) \o " | "
                                  \o Rendered(heap, heap[root].options[2])
        /\ KindOf(heap, root) = "ZodTuple" =>
               zresult.value = "tuple<" \o Rendered(heap, heap[root].items[1]) \o ", "
                                  \o Rendered(heap, heap[root].items[2]) \o ">"

\* the same without arrays
C19_ExceptArrays ==
    Called("typeToString") =>
        /\ KindOf(heap, root) \in {NoTypeName, "ZodFunction"} => zresult.value = "unknown"
        /\ KindOf(heap, root) = "ZodRecord" =>
               zresult.value = "record<string, " \o Rendered(heap, heap[root].valueType) \o ">"
        /\ (KindOf(heap, root) = "ZodUnion" /\ ~heap[root].isOptional) =>
               zresult.value = Rendered(heap, heap[root].options[1]) \o " | "
                                  \o Rendered(heap, heap[root].options[2])
        /\ KindOf(heap, root) = "ZodTuple" =>
               zresult.value = "tuple<" \o Rendered(heap, heap[root].items[1]) \o ", "
                                  \o Rendered(heap, heap[root].items[2]) \o ">"

-----------------------------------------------------------------------------
(* Claims about askLlmObjectXml (checked under SpecAsk)                    *)

\* the parse v is not null and holds every required key
ContainsRequired(v) ==
    /\ v # JsNull
    /\ \A i \in 1..Len(requiredFields) : IsObj(v) /\ HasKey(v, requiredFields[i])

\* the parse v is empty as JavaScript's !v has it (null, 0, false, "") or
\* lacks a required key
EmptyOrLacking(v) ==
    \/ v \in {JsNull, JsNum(0), JsBool(FALSE), JsStr(<<>>)}
    \/ \E i \in 1..Len(requiredFields) : ~(IsObj(v) /\ HasKey(v, requiredFields[i]))

AskEnded == apc \in {"returned", "rejected"}

\* C20 as claimed, without its termination part: at most maxRetries model
\* calls, and a call after an earlier attempt is issued only when that
\* attempt's parse was null or lacked a required key, so none is issued after
\* an attempt whose parse contains every required key.
C20_RetryOnlyOnNullOrMissing ==
    /\ Len(calls) <= maxRetries
    /\ (apc = "awaiting" /\ retries > 0) => ~ContainsRequired(responseContent)

\* C20 amended: at most maxRetries model calls; a call after an earlier attempt
\* is issued only when that attempt's parse was empty (null, or a root leaf
\* coerced to 0, false or the empty string) or lacked a required key, so none
\* is issued after an attempt whose non-empty parse holds every required key;
\* and the call always ends, by returning or by the model call's rejection.
C20_BoundedRetriesAndTermination ==
    /\ [](/\ Len(calls) <= maxRetries
          /\ retries <= maxRetries
          /\ (apc = "awaiting" /\ retries > 0) => EmptyOrLacking(responseContent)
          /\ (apc = "returned" /\ retries < maxRetries) => ~EmptyOrLacking(responseContent))
    /\ <>AskEnded

C20_Witness ==
    /\ apc = "returned" /\ maxRetries = MaxRetries
    /\ calls = <<"unsatisfied", "satisfied">>
    /\ requiredFields = <<<<"b">>>>
    /\ responseContent = JsObj(<<[key |-> <<"b">>, val |-> JsNum(1)]>>)

-----------------------------------------------------------------------------
(* Claims about the scan of parseFlatByRegex                               *)

\* where exec, started at from, finds its match (0 if it finds none)
MatchIndex(s, from) ==
    LET starts == {i \in from..Len(s) : TagMatchAt(s, i).found}
    IN  IF starts = {} THEN 0 ELSE Least(starts)

\* one step of the scan, from the invocation top at depth n, where exec would
\* find its match at index: an exec that matches consumes a non-empty match
\* and leaves lastIndex strictly behind it, the loop body leaves lastIndex
\* alone, a recursive call scans a strictly shorter text from its start, and a
\* return leaves the caller where its own exec had put it
C21_StepOk(n, top, index) ==
    /\ (Len(frames') = n /\ frames'[n].at = "body") =>
          /\ top.at = "exec"
          /\ index >= top.lastIndex
          /\ frames'[n].lastIndex > index
          /\ frames'[n].lastIndex > top.lastIndex
    /\ (Len(frames') = n /\ top.at = "body") =>
          frames'[n].lastIndex = top.lastIndex
    /\ Len(frames') >= n => frames'[n].innerXml = top.innerXml
    /\ Len(frames') > n =>
          /\ Len(frames') = n + 1
          /\ frames'[n].lastIndex = top.lastIndex
          /\ Len(frames'[n + 1].innerXml) < Len(top.innerXml)
          /\ frames'[n + 1].lastIndex = 1
    /\ Len(frames') < n =>
          /\ Len(frames') = n - 1
          /\ frames'[n - 1].lastIndex = frames[n - 1].lastIndex
          /\ frames'[n - 1].innerXml = frames[n - 1].innerXml

ScanReturned == fpc = "returned"

\* C21: the degraded scan terminates on every input text: each iteration
\* consumes a non-empty match and resumes strictly after it, a nested
\* invocation never moves its caller's scan position, every recursive call is
\* made on a body strictly shorter than the text being scanned, and the
\* outermost invocation returns (with the value of the recursive definition)
C21_ScanTerminates ==
    /\ [][(fpc = "scan" /\ frames' # frames) =>
            C21_StepOk(Len(frames), frames[Len(frames)],
                       MatchIndex(frames[Len(frames)].innerXml,
                                  frames[Len(frames)].lastIndex))]_vars
    /\ [](ScanReturned => fresult = parseFlatByRegex(frames[1].innerXml, fopts))
    /\ <>ScanReturned

\* a scan that recursed, resumed in the caller and returned
C21_Witness ==
    /\ ScanReturned
    /\ fopts = [arrayize |-> TRUE, coercePrimitives |-> TRUE]
    /\ frames[1].innerXml =
          Serialize(Element(<<"a">>, <<>>,
                            <<Element(<<"b">>, <<>>, <<TextNode(<<"1">>)>>, FALSE),
                              Element(<<"b">>, <<>>, <<TextNode(<<"2">>)>>, FALSE)>>, FALSE))
    /\ fresult = JsObj(<<[key |-> <<"a">>,
                          val |-> JsObj(<<[key |-> <<"b">>,
                                           val |-> JsArr(<<JsNum(1), JsNum(2)>>)]>>)]>>)

-----------------------------------------------------------------------------
(* Claims about the handler                                                *)

\* response.updates.update, undefined where there is none
UpdateOf(response) == OptProp(OptProp(response, UpdatesKey), UpdateKey)

\* the invocation returned before any component was read
EarlyReturn(i) ==
    /\ hpc[i] = "returned"
    /\ \/ ~isMessageMetadataWithEntity(message[i])
       \/ Not(message[i].sourceId)
       \/ characterComp[i] = NoComponent
       \/ Not(UpdateOf(reply[i]))

\* C22: an invocation calls runtime.updateComponent at most once, and only
\* once askLlmObjectXml has returned a response whose updates.update is
\* present; an invocation that returned early (no entity metadata, no
\* sourceId, no entity or no character component obtained, no updates.update)
\* has not called it
C22_UpdateOnlyWithUpdates ==
    \A i \in Procs :
        /\ Len(updateCalls[i]) <= 1
        /\ Len(updateCalls[i]) = 1 =>
              /\ hpc[i] \in {"update", "returned"}
              /\ ~Not(UpdateOf(reply[i]))
              /\ characterComp[i] # NoComponent
        /\ EarlyReturn(i) => updateCalls[i] = <<>>
        /\ hpc[i] \in {"idle", "call", "getEntity", "createEntity", "refetchEntity",
                       "getRoom", "createComponent", "refetchComponent", "compose",
                       "ask", "apply", "rejected"} => updateCalls[i] = <<>>

\* an invocation that was answered with an update, called updateComponent once
\* and returned
C22_Witness ==
    /\ hpc[1] = "returned"
    /\ reply[1] = AskResult(BioUpdateDoc, "absent")
    /\ Len(updateCalls[1]) = 1
    /\ store.components = <<updateCalls[1][1]>>

\* a field that is there and not empty
NonEmptyField(field) ==
    field \notin {Undefined, JsNull, JsStr(<<>>), EmptyObj, JsArr(<<>>)}

\* the effect of one applyUpdate call on the character before, the character
\* after and the update
C23_ApplyOk(before, after, update) ==
    /\ after # before =>
          /\ NonEmptyField(Prop(update, FieldKey))
          /\ Prop(update, NewKey).ty = "string"
    /\ Prop(update, NewKey).ty \in {"number", "infinity", "boolean", "null", "object"} =>
          after = before
    /\ \A key \in Keys(before) :
          key # JsString(Prop(update, FieldKey)) =>
             HasKey(after, key) /\ Get(after, key) = Get(before, key)
    /\ \A key \in Keys(after) :
          key # JsString(Prop(update, FieldKey)) => HasKey(before, key)

\* C23: applyUpdate writes character[field] only when the update has a
\* non-empty field and its new value is a string; an update whose new value is
\* a number, a boolean, null or a nested mapping leaves every field of the
\* character as it was, and no call changes another field than the update's
C23_WritesOnlyStringUpdates ==
    [][\A i \in Procs :
          (hpc[i] = "apply" /\ applied'[i] = applied[i] + 1) =>
             C23_ApplyOk(character[i], character'[i], updates[i][applied[i] + 1])]_vars

\* the same, for the updates whose field is not the empty mapping
C23_ExceptEmptyMappingField ==
    [][\A i \in Procs :
          (/\ hpc[i] = "apply" /\ applied'[i] = applied[i] + 1
           /\ Prop(updates[i][applied[i] + 1], FieldKey) # EmptyObj) =>
             C23_ApplyOk(character[i], character'[i], updates[i][applied[i] + 1])]_vars

\* the message's entityName, else its entityUserName
MessageName(metadata) ==
    IF metadata.entityName # Undefined THEN metadata.entityName
    ELSE metadata.entityUserName

SameComponent(a, b) ==
    /\ a.id = b.id /\ a.entityId = b.entityId /\ a.agentId = b.agentId
    /\ a.roomId = b.roomId /\ a.worldId = b.worldId
    /\ a.sourceEntityId = b.sourceEntityId /\ a.type = b.type
    /\ a.createdAt = b.createdAt

\* C24: the data handed to updateComponent carries the name modelTarget, the
\* message's entityName or else its entityUserName, whatever the updates
\* applied, and the component's id, entityId, agentId, roomId, worldId,
\* sourceEntityId, type and createdAt are those of the component that was
\* read from the store
C24_NameAndIdentityKept ==
    \A i \in Procs :
        \A k \in 1..Len(updateCalls[i]) :
            /\ HasKey(updateCalls[i][k].data, NameKey)
            /\ Get(updateCalls[i][k].data, NameKey) = MessageName(message[i])
            /\ SameComponent(updateCalls[i][k], characterComp[i])
            /\ \E c \in 1..Len(store.components) :
                  SameComponent(updateCalls[i][k], store.components[c])

\* a character persisted after an update of its name was applied
C24_Witness ==
    /\ hpc[1] = "returned"
    /\ reply[1] = AskResult(NameUpdateDoc, "ok")
    /\ applied[1] = 1
    /\ message[1] = Metadata(Undefined, Ann1, EntityId)
    /\ Len(updateCalls[1]) = 1
    /\ Get(FindCharacter(store.components).data, NameKey) = Ann1
    /\ HasKey(FindCharacter(store.components).data, BioKey)
    /\ Get(FindCharacter(store.components).data, BioKey) = JsStr(<<"o", "l", "d">>)

\* both invocations have written and returned
BothPersisted == \A i \in Procs : hpc[i] = "returned" /\ Len(updateCalls[i]) = 1

\* C25: once two overlapping invocations for the same entity have both written
\* and returned, the stored character holds the field updates of both
C25_BothUpdatesPersisted ==
    BothPersisted =>
        /\ HasKey(FindCharacter(store.components).data, BioKey)
        /\ Get(FindCharacter(store.components).data, BioKey) = JsStr(<<"x">>)
        /\ HasKey(FindCharacter(store.components).data, TagKey)
        /\ Get(FindCharacter(store.components).data, TagKey) = JsStr(<<"y">>)

\* the component an invocation read already held the other's update
ReadAfterWrite ==
    \/ /\ HasKey(characterComp[2].data, BioKey)
       /\ Get(characterComp[2].data, BioKey) = JsStr(<<"x">>)
    \/ HasKey(characterComp[1].data, TagKey)

\* the updates of both are stored when one invocation read the component
\* after the other had written it
C25_WhenReadAfterWrite ==
    (BothPersisted /\ ReadAfterWrite) =>
        /\ HasKey(FindCharacter(store.components).data, BioKey)
        /\ Get(FindCharacter(store.components).data, BioKey) = JsStr(<<"x">>)
        /\ HasKey(FindCharacter(store.components).data, TagKey)
        /\ Get(FindCharacter(store.components).data, TagKey) = JsStr(<<"y">>)

=============================================================================
